---- MODULE Spec2Model ----
(***************************************************************************)
(* A model of nbdime's diff-application and position-mapping engine        *)
(* (nbdime/webapp/src/patch.ts, diffutil.ts, diffmodel.ts).                *)
(*                                                                         *)
(* JavaScript strings are sequences of one-character strings.  JavaScript  *)
(* values are tagged records:                                              *)
(*    [t |-> "num", n |-> Int]      a number                               *)
(*    [t |-> "str", s |-> chars]    a string                               *)
(*    [t |-> "arr", a |-> values]   an array                               *)
(*    [t |-> "obj", o |-> entries]  an object: its own properties, in      *)
(*                                  insertion order, each [k |-> chars,    *)
(*                                  v |-> value]                           *)
(*    [t |-> "null"], [t |-> "undef"]                                      *)
(*    [t |-> "throw", msg |-> ...]  the outcome of a call that raised      *)
(***************************************************************************)
EXTENDS Integers, Sequences, FiniteSets, TLC

VARIABLES
    base,     \* the base value
    diff,     \* the diff applied to it
    pc,       \* the function that is running
    cursor,   \* the position of the running loop in the diff (or the keys)
    st,       \* the local variables of the running loop
    out,      \* what patchStringified returned or raised
    pout,     \* what patch returned or raised
    model,    \* the StringDiffModel built from base and diff
    gc,       \* the local variables of getChunks
    chunks,   \* what getChunks returned
    options,  \* the options a MergeView is constructed with
    mv        \* the MergeView under construction

vars == <<base, diff, pc, cursor, st, out, pout, model, gc, chunks, options, mv>>

-----------------------------------------------------------------------------
(* Bounds of the model *)

\* longest top-level string base
MaxStr == 3
\* most entries in a top-level sequence diff
MaxDiff == 2
\* longest top-level array base
MaxList == 2
\* most lines in a view of two aligned diff views
MaxLine == 2
\* most chunks of a diff view
MaxChunks == 2
\* most additions, and most deletions, of a string diff model
MaxRanges == 1
\* most models of a synchronized iterator
MaxModels == 2
\* most raw ranges in a direct call of raw2Pos
MaxRaws == 1

-----------------------------------------------------------------------------
(* JavaScript values *)

Num(n) == [t |-> "num", n |-> n]
Str(s) == [t |-> "str", s |-> s]
Arr(a) == [t |-> "arr", a |-> a]
Obj(o) == [t |-> "obj", o |-> o]
Null == [t |-> "null"]
Undef == [t |-> "undef"]
Throw(m) == [t |-> "throw", msg |-> m]
\* no value yet: a call that has not returned, a variable that is null
None == [t |-> "none"]
KV(k, v) == [k |-> k, v |-> v]

IsThrow(v) == v.t = "throw"

\* a variant of Max that returns its second argument, whichever is larger
SecondOf(a, b) == b

Max(a, b) == IF a >= b THEN a ELSE b

\* String.prototype.slice / Array.prototype.slice: a negative index counts
\* from the end
Slice(s, from, to) ==
    LET f == IF from < 0 THEN Max(Len(s) + from, 0) ELSE from
        t == IF to < 0 THEN Max(Len(s) + to, 0) ELSE IF to <= Len(s) THEN to ELSE Len(s)
    IN  IF f >= t THEN <<>> ELSE SubSeq(s, f + 1, t)

RECURSIVE Concat(_)
Concat(ss) == IF ss = <<>> THEN <<>> ELSE Head(ss) \o Concat(Tail(ss))

\* the index (0-based) of the first occurrence of pat in s at or after i, or -1
RECURSIVE IndexOf(_, _, _)
IndexOf(s, pat, i) ==
    IF i + Len(pat) > Len(s) THEN -1
    ELSE IF SubSeq(s, i + 1, i + Len(pat)) = pat THEN i
    ELSE IndexOf(s, pat, i + 1)

\* UTF-16 code units of the characters the model orders (Array.prototype.sort)
CharCode(c) ==
    CASE c = "a" -> 97 [] c = "b" -> 98 [] c = "c" -> 99 [] c = "d" -> 100
      [] c = "p" -> 112 [] c = "x" -> 120 [] c = "y" -> 121
      [] OTHER -> 0

RECURSIVE StrLess(_, _)
StrLess(x, y) ==
    IF y = <<>> THEN FALSE
    ELSE IF x = <<>> THEN TRUE
    ELSE IF CharCode(Head(x)) # CharCode(Head(y))
         THEN CharCode(Head(x)) < CharCode(Head(y))
    ELSE StrLess(Tail(x), Tail(y))

Digits == <<"0", "1", "2", "3", "4", "5", "6", "7", "8", "9">>

RECURSIVE NatStr(_)
NatStr(n) ==
    IF n < 10 THEN <<Digits[n + 1]>>
    ELSE NatStr(n \div 10) \o <<Digits[(n % 10) + 1]>>

\* Number.prototype.toString for integers
NumStr(n) == IF n < 0 THEN <<"-">> \o NatStr(-n) ELSE NatStr(n)

-----------------------------------------------------------------------------
(* diffutil.ts *)

JSON_INDENT == <<" ", " ", " ", " ">>

RECURSIVE repeat_string(_, _)
repeat_string(str, count) ==
    IF count < 1 THEN <<>> ELSE str \o repeat_string(str, count - 1)

\* a variant of DiffRangeRaw that takes its second argument for the end
DiffRangeRawEnd(from, length) == [from |-> from, to |-> length]

\* new DiffRangeRaw(from, length)
DiffRangeRaw(from, length) == [from |-> from, to |-> from + length]

\* DiffRangeRaw.offset
RangeOffset(r, offset) == [from |-> r.from + offset, to |-> r.to + offset]

-----------------------------------------------------------------------------
(* JSON text *)

\* JSON.stringify of a string: quoted, with the characters JSON escapes
EscapeChar(c) ==
    CASE c = "\"" -> <<"\\", "\"">>
      [] c = "\\" -> <<"\\", "\\">>
      [] c = "\n" -> <<"\\", "n">>
      [] c = "\t" -> <<"\\", "t">>
      [] c = "BEL" -> <<"\\", "u", "0", "0", "0", "7">>
      [] OTHER -> <<c>>

RECURSIVE EscapeChars(_)
EscapeChars(s) ==
    IF s = <<>> THEN <<>> ELSE EscapeChar(Head(s)) \o EscapeChars(Tail(s))

JSONQuote(s) == <<"\"">> \o EscapeChars(s) \o <<"\"">>

\* Object.keys(obj), in insertion order
objectKeys(obj) == [i \in 1..Len(obj.o) |-> obj.o[i].k]

HasKey(obj, key) == \E i \in 1..Len(obj.o) : obj.o[i].k = key

\* obj[key] for an object: undefined when the key is absent
GetKey(obj, key) ==
    IF HasKey(obj, key)
    THEN obj.o[CHOOSE i \in 1..Len(obj.o) : obj.o[i].k = key].v
    ELSE Undef

\* obj[key] = value: replaces in place, or appends a new property
SetKey(obj, key, value) ==
    IF HasKey(obj, key)
    THEN Obj([i \in 1..Len(obj.o) |->
                IF obj.o[i].k = key THEN KV(key, value) ELSE obj.o[i]])
    ELSE Obj(Append(obj.o, KV(key, value)))

\* Array.prototype.sort() on strings, as an insertion sort
RECURSIVE InsertSorted(_, _)
InsertSorted(k, s) ==
    IF s = <<>> THEN <<k>>
    ELSE IF StrLess(k, Head(s)) THEN <<k>> \o s
    ELSE <<Head(s)>> \o InsertSorted(k, Tail(s))

RECURSIVE SortKeys(_)
SortKeys(s) == IF s = <<>> THEN <<>> ELSE InsertSorted(Head(s), SortKeys(Tail(s)))

\* Array.prototype.join
RECURSIVE Join(_, _)
Join(parts, sep) ==
    IF parts = <<>> THEN <<>>
    ELSE IF Len(parts) = 1 THEN parts[1]
    ELSE parts[1] \o sep \o Join(Tail(parts), sep)

\* json-stable-stringify with {space: JSON_INDENT}; <<>> stands for the
\* undefined it returns for an undefined node
RECURSIVE stableStringify(_, _)

\* an array item: undefined is rendered as null
StringifyItem(v, lvl) ==
    IF v.t = "undef" THEN <<"n", "u", "l", "l">> ELSE stableStringify(v, lvl)

\* the keys whose value is not undefined: the others are left out
RECURSIVE PresentKeys(_, _)
PresentKeys(node, keys) ==
    IF keys = <<>> THEN <<>>
    ELSE IF GetKey(node, Head(keys)).t = "undef" THEN PresentKeys(node, Tail(keys))
    ELSE <<Head(keys)>> \o PresentKeys(node, Tail(keys))

\* the lines of an object, one for each of keys
StringifyMembers(node, keys, lvl) ==
    [n \in 1..Len(keys) |->
       <<"\n">> \o repeat_string(JSON_INDENT, lvl + 1) \o JSONQuote(keys[n])
       \o <<":", " ">> \o stableStringify(GetKey(node, keys[n]), lvl + 1)]

stableStringify(node, lvl) ==
    CASE node.t = "undef" -> <<>>
      [] node.t = "null" -> <<"n", "u", "l", "l">>
      [] node.t = "num" -> NumStr(node.n)
      [] node.t = "str" -> JSONQuote(node.s)
      [] node.t = "arr" ->
           <<"[">> \o
           Join([n \in 1..Len(node.a) |->
                   <<"\n">> \o repeat_string(JSON_INDENT, lvl + 1)
                   \o StringifyItem(node.a[n], lvl + 1)], <<",">>)
           \o <<"\n">> \o repeat_string(JSON_INDENT, lvl) \o <<"]">>
      [] node.t = "obj" ->
           <<"{">> \o
           Join(StringifyMembers(node, PresentKeys(node, SortKeys(objectKeys(node))),
                                 lvl), <<",">>)
           \o <<"\n">> \o repeat_string(JSON_INDENT, lvl) \o <<"}">>

-----------------------------------------------------------------------------
(* patch.ts: stringify and its helpers *)

\* _indent: every line but (unless indentFirst) the first gets levels indents
RECURSIVE IndentRest(_, _)
IndentRest(str, ind) ==
    IF str = <<>> THEN <<>>
    ELSE IF Head(str) = "\n" THEN <<"\n">> \o ind \o IndentRest(Tail(str), ind)
    ELSE <<Head(str)>> \o IndentRest(Tail(str), ind)

_indent(str, levels, indentFirst) ==
    LET ind == repeat_string(JSON_INDENT, levels)
    IN  (IF indentFirst THEN ind ELSE <<>>) \o IndentRest(str, ind)

\* stringify(values, level, indentFirst); an omitted indentFirst is TRUE
stringify(values, level, indentFirst) ==
    LET ret == IF values.t = "null" THEN <<>> ELSE stableStringify(values, 0)
    IN  IF level # 0 THEN _indent(ret, level, indentFirst) ELSE ret


\* getAllKeys: own keys then diff keys, first occurrences only, sorted
RECURSIVE onlyUnique(_)
onlyUnique(keys) ==
    IF keys = <<>> THEN <<>>
    ELSE LET front == onlyUnique(SubSeq(keys, 1, Len(keys) - 1))
             last == keys[Len(keys)]
         IN  IF \E i \in 1..Len(front) : front[i] = last
             THEN front ELSE Append(front, last)

\* Object.keys of a value that is not an object is empty
ObjView(v) == IF v.t = "obj" THEN v ELSE Obj(<<>>)

\* a variant of getAllKeys that leaves the keys in the order it met them
getAllKeysUnsorted(obj, diffKeys) ==
    onlyUnique(objectKeys(ObjView(obj)) \o diffKeys)

getAllKeys(obj, diffKeys) ==
    SortKeys(onlyUnique(objectKeys(ObjView(obj)) \o diffKeys))

valueIn(value, array) == \E i \in 1..Len(array) : array[i] = value

makeKeyString(key, level) ==
    repeat_string(JSON_INDENT, level) \o <<"\"">> \o key \o <<"\"", ":", " ">>

OffsetAll(offset, ranges) ==
    [i \in 1..Len(ranges) |-> RangeOffset(ranges[i], offset)]

\* every index at which the two-character escape e occurs in jsonString
RECURSIVE FindAll(_, _, _)
FindAll(jsonString, e, i) ==
    LET j == IndexOf(jsonString, e, i)
    IN  IF j < 0 THEN <<>> ELSE <<j>> \o FindAll(jsonString, e, j + 1)

IsDigit(c) == \E i \in 1..10 : Digits[i] = c

\* the matches of /\\u\d{4}/g, left to right, not overlapping
RECURSIVE FindUnicodes(_, _)
FindUnicodes(jsonString, i) ==
    IF i + 6 > Len(jsonString) THEN <<>>
    ELSE IF /\ jsonString[i + 1] = "\\" /\ jsonString[i + 2] = "u"
            /\ \A d \in 3..6 : IsDigit(jsonString[i + d])
         THEN <<i>> \o FindUnicodes(jsonString, i + 6)
    ELSE FindUnicodes(jsonString, i + 1)

escapes ==
    << <<"\\", "\"">>, <<"\\", "\\">>, <<"\\", "/">>, <<"\\", "b">>,
       <<"\\", "f">>, <<"\\", "n">>, <<"\\", "r">>, <<"\\", "t">> >>

\* the (index, expansion) pairs adjustRangesByJSONEscapes records: an
\* expansion of 2 - 1 for a two-character escape, 6 - 1 for a \uXXXX
EscapeTable(jsonString) ==
    Concat([k \in 1..Len(escapes) |->
              LET found == FindAll(jsonString, escapes[k], 0)
              IN  [n \in 1..Len(found) |-> [idx |-> found[n], expansion |-> 2 - 1]]])
    \o LET found == FindUnicodes(jsonString, 0)
       IN  [n \in 1..Len(found) |-> [idx |-> found[n], expansion |-> 6 - 1]]

\* one round of the adjusting loop: boundaries after idx move by expansion - 1
AdjustOne(r, idx, expansion) ==
    LET exp == expansion - 1
    IN  [from |-> IF r.from > idx THEN r.from + exp ELSE r.from,
         to   |-> IF r.to > idx THEN r.to + exp ELSE r.to]

RECURSIVE AdjustRange(_, _)
AdjustRange(r, table) ==
    IF table = <<>> THEN r
    ELSE AdjustRange(AdjustOne(r, Head(table).idx, Head(table).expansion),
                     Tail(table))

adjustRangesByJSONEscapes(jsonString, ranges) ==
    LET table == EscapeTable(jsonString)
    IN  [i \in 1..Len(ranges) |-> AdjustRange(ranges[i], table)]

\* deepCopy: a primitive is returned as is; an array is copied element by
\* element; any other object (null included) is copied property by
\* property, after r.prototype = obj.prototype
RECURSIVE deepCopy(_)
deepCopy(obj) ==
    CASE obj.t = "arr" ->
           LET copies == [i \in 1..Len(obj.a) |-> deepCopy(obj.a[i])]
           IN  IF \E i \in 1..Len(copies) : IsThrow(copies[i])
               THEN Throw("TypeError") ELSE Arr(copies)
      [] obj.t = "obj" ->
           LET copies == [i \in 1..Len(obj.o) |->
                            KV(obj.o[i].k, deepCopy(obj.o[i].v))]
               proto == KV(<<"p", "r", "o", "t", "o", "t", "y", "p", "e">>,
                           GetKey(obj, <<"p", "r", "o", "t", "o", "t", "y", "p", "e">>))
           IN  IF \E i \in 1..Len(copies) : IsThrow(copies[i].v)
               THEN Throw("TypeError")
               ELSE Obj(<<proto>> \o
                        SelectSeq(copies, LAMBDA e : e.k # proto.k))
      [] obj.t = "null" -> Throw("TypeError")
      [] OTHER -> obj

-----------------------------------------------------------------------------
(* patch.ts: the diff ops *)

ADD == "add"
REMOVE == "remove"
REPLACE == "replace"
PATCH == "patch"
SEQINSERT == "addrange"
SEQDELETE == "removerange"

\* base[index] of a string or an array (index counted from 0)
At(b, index) ==
    CASE b.t = "str" ->
           IF index >= 0 /\ index < Len(b.s) THEN Str(<<b.s[index + 1]>>) ELSE Undef
      [] b.t = "arr" ->
           IF index >= 0 /\ index < Len(b.a) THEN b.a[index + 1] ELSE Undef
      [] OTHER -> Undef

\* the elements of a string or an array
Elems(b) == IF b.t = "str" THEN [i \in 1..Len(b.s) |-> Str(<<b.s[i]>>)] ELSE b.a

\* the .length of a string or an array
Length(v) == IF v.t = "str" THEN Len(v.s) ELSE Len(v.a)

\* ToString, as the + operator applies it to its operands
RECURSIVE ToStr(_)
ToStr(v) ==
    CASE v.t = "str" -> v.s
      [] v.t = "num" -> NumStr(v.n)
      [] v.t = "arr" ->
           Join([i \in 1..Len(v.a) |->
                   IF v.a[i].t \in {"null", "undef"} THEN <<>> ELSE ToStr(v.a[i])],
                <<",">>)
      [] v.t = "obj" -> <<"[", "o", "b", "j", "e", "c", "t", " ",
                           "O", "b", "j", "e", "c", "t", "]">>
      [] v.t = "null" -> <<"n", "u", "l", "l">>
      [] OTHER -> <<"u", "n", "d", "e", "f", "i", "n", "e", "d">>


-----------------------------------------------------------------------------
(* patch.ts: patch, patchSequence, patchObject *)

\* patched.push(value) for each value of values, deep-copied: a string has
\* no push, and deepCopy raises on null
PushCopies(patched, values) ==
    LET copies == [i \in 1..Len(values) |-> deepCopy(values[i])]
    IN  IF values = <<>> THEN patched
        ELSE IF IsThrow(copies[1]) THEN Throw("TypeError")
        ELSE IF patched.t # "arr" THEN Throw("TypeError")
        ELSE IF \E i \in 1..Len(copies) : IsThrow(copies[i]) THEN Throw("TypeError")
        ELSE Arr(patched.a \o copies)

\* the loop state of patchSequence before the first entry
SequenceStart(b) ==
    [t |-> "run", patched |-> IF b.t = "str" THEN Str(<<>>) ELSE Arr(<<>>),
     take |-> 0, skip |-> 0]

RECURSIVE patch(_, _)

\* the loop state once an entry is applied: take never decreases
SequenceNext(s, patched, index, skip) ==
    [t |-> "run", patched |-> patched, skip |-> skip,
     take |-> Max(s.take, index + skip)]

\* patched.push(nested), nested being what the recursive patch returned
SequencePatched(s, copied, index, nested) ==
    IF IsThrow(nested) THEN nested
    ELSE IF copied.t # "arr" THEN Throw("TypeError")
    ELSE SequenceNext(s, Arr(Append(copied.a, nested)), index, 1)

\* the op of entry e applied after the unmentioned values were copied
SequenceApply(s, e, b, copied) ==
    IF IsThrow(copied) THEN copied
    ELSE IF e.op = SEQINSERT
         THEN SequenceNext(s, Str(ToStr(copied) \o ToStr(e.valuelist)), e.key.n, 0)
    ELSE IF e.op = SEQDELETE
         THEN SequenceNext(s, copied, e.key.n, e.length)
    ELSE IF e.op = PATCH
         THEN SequencePatched(s, copied, e.key.n, patch(At(b, e.key.n), e.diff))
    ELSE Throw("Invalid op: ")

\* one iteration of patchSequence's loop, for entry e
SequenceStep(s, e, b) ==
    SequenceApply(s, e, b, PushCopies(s.patched, Slice(Elems(b), s.take, e.key.n)))

\* after the loop: the values at the end that the diff does not mention
SequenceReturn(s, b) ==
    PushCopies(s.patched, Slice(Elems(b), s.take, Len(Elems(b))))

RECURSIVE SequenceRun(_, _, _)
SequenceRun(s, d, b) ==
    IF IsThrow(s) \/ d = <<>> THEN s
    ELSE SequenceRun(SequenceStep(s, Head(d), b), Tail(d), b)

patchSequence(b, d) ==
    LET s == SequenceRun(SequenceStart(b), d, b)
    IN  IF IsThrow(s) THEN s ELSE SequenceReturn(s, b)

\* keysToCopy.splice(keysToCopy.indexOf(key), 1): an index of -1 removes
\* the last key
SpliceKey(keys, key) ==
    IF keys = <<>> THEN keys
    ELSE LET at == IF valueIn(key, keys)
                   THEN CHOOSE i \in 1..Len(keys) :
                          keys[i] = key /\ \A j \in 1..(i - 1) : keys[j] # key
                   ELSE Len(keys)
         IN  SubSeq(keys, 1, at - 1) \o SubSeq(keys, at + 1, Len(keys))

ObjectStart(b) ==
    [t |-> "run", patched |-> Obj(<<>>), keysToCopy |-> objectKeys(ObjView(b))]

\* patched[key] = nested, nested being what the recursive patch returned
ObjectPatched(s, key, nested) ==
    IF IsThrow(nested) THEN nested
    ELSE [s EXCEPT !.keysToCopy = SpliceKey(s.keysToCopy, key),
                   !.patched = SetKey(s.patched, key, nested)]

\* one iteration of patchObject's loop; in console.assert(!(key in
\* keysToCopy)) the in operator looks at the indices of the array, not at
\* the keys it holds, and a console.assert that fails only logs
ObjectStep(s, e, b) ==
    IF e.op = ADD
    THEN [s EXCEPT !.patched = SetKey(s.patched, e.key.s, e.value)]
    ELSE IF e.op = REMOVE
         THEN [s EXCEPT !.keysToCopy = SpliceKey(s.keysToCopy, e.key.s)]
    ELSE IF e.op = REPLACE
         THEN [s EXCEPT !.keysToCopy = SpliceKey(s.keysToCopy, e.key.s),
                        !.patched = SetKey(s.patched, e.key.s, e.value)]
    ELSE IF e.op = PATCH
         THEN ObjectPatched(s, e.key.s, patch(GetKey(ObjView(b), e.key.s), e.diff))
    ELSE Throw("Invalid op ")

\* after the loop: the items the diff does not mention
RECURSIVE CopyKeys(_, _, _)
CopyKeys(patched, keys, b) ==
    IF keys = <<>> THEN patched
    ELSE LET copy == deepCopy(GetKey(ObjView(b), Head(keys)))
         IN  IF IsThrow(copy) THEN copy
             ELSE CopyKeys(SetKey(patched, Head(keys), copy), Tail(keys), b)

ObjectReturn(s, b) == CopyKeys(s.patched, s.keysToCopy, b)

RECURSIVE ObjectRun(_, _, _)
ObjectRun(s, d, b) ==
    IF IsThrow(s) \/ d = <<>> THEN s
    ELSE ObjectRun(ObjectStep(s, Head(d), b), Tail(d), b)

\* Object.keys raises on null and undefined
patchObject(b, d) ==
    IF b.t \in {"null", "undef"} THEN Throw("TypeError")
    ELSE LET s == ObjectRun(ObjectStart(b), d, b)
         IN  IF IsThrow(s) THEN s ELSE ObjectReturn(s, b)

patch(b, d) ==
    IF b.t \in {"str", "arr"} THEN patchSequence(b, d) ELSE patchObject(b, d)


-----------------------------------------------------------------------------
(* patch.ts: patchStringified and its three branches *)

postfix == <<",", "\n">>

Result(remote, additions, deletions) ==
    [t |-> "result", remote |-> remote,
     additions |-> additions, deletions |-> deletions]

\* remote without one trailing postfix, when it ends with one
StripPostfix(remote) ==
    IF Slice(remote, Len(remote) - Len(postfix), Len(remote)) = postfix
    THEN Slice(remote, 0, Len(remote) - Len(postfix))
    ELSE remote

RECURSIVE patchStringified(_, _, _)

(* patchString *)

StringStart ==
    [t |-> "run", remote |-> <<>>, additions |-> <<>>, deletions |-> <<>>,
     baseIndex |-> 0, take |-> 0, skip |-> 0]

\* one iteration of patchString's loop, for entry e
StringStep(s, e, b) ==
    LET index == e.key.n
        unchanged == Slice(b.s, s.take, index)
        remote == s.remote \o unchanged
        baseIndex == s.baseIndex + Len(unchanged)
    IN  IF e.op = SEQINSERT
        THEN LET added == e.valuelist
             IN  [s EXCEPT !.additions = Append(@, DiffRangeRaw(Len(remote), Length(added))),
                           !.remote = remote \o ToStr(added),
                           !.baseIndex = baseIndex,
                           !.skip = 0,
                           !.take = Max(s.take, index + 0)]
        ELSE IF e.op = SEQDELETE
        THEN LET skip == e.length
             IN  [s EXCEPT !.deletions = Append(@, DiffRangeRaw(baseIndex, skip)),
                           !.remote = remote,
                           !.baseIndex = baseIndex + skip,
                           !.skip = skip,
                           !.take = Max(s.take, index + skip)]
        ELSE Throw("Invalid diff op on string: ")

\* a variant of StringReturn that leaves out the rest of base after the
\* last entry
StringReturnNoTail(s, b, level) ==
    Result(s.remote, s.additions, s.deletions)

\* after the loop: the rest of base, and the JSON form when nested
StringReturn(s, b, level) ==
    LET remote == s.remote \o Slice(b.s, s.take, Len(b.s))
        quoted == stringify(Str(remote), level, TRUE)
        shift == level * Len(JSON_INDENT) + 1
    IN  IF level > 0
        THEN Result(quoted,
                    adjustRangesByJSONEscapes(quoted, OffsetAll(shift, s.additions)),
                    adjustRangesByJSONEscapes(b.s, OffsetAll(shift, s.deletions)))
        ELSE Result(remote, s.additions, s.deletions)

RECURSIVE StringRun(_, _, _)
StringRun(s, d, b) ==
    IF IsThrow(s) \/ d = <<>> THEN s
    ELSE StringRun(StringStep(s, Head(d), b), Tail(d), b)

patchString(b, d, level) ==
    LET s == StringRun(StringStart, d, b)
    IN  IF IsThrow(s) THEN s ELSE StringReturn(s, b, level)

(* patchStringifiedList *)

ListStart ==
    [t |-> "run", remote |-> <<>>, additions |-> <<>>, deletions |-> <<>>,
     baseIndex |-> 0, take |-> 0, skip |-> 0]

\* the values not mentioned in the diff, up to not including index
ListUnchanged(s, b, index, level) ==
    IF index > s.take
    THEN stringify(Arr(Slice(b.a, s.take, index)), level + 1, TRUE) \o postfix
    ELSE <<>>

\* SEQINSERT: val is the stringified valuelist (and postfix)
ListInserted(s, remote, baseIndex, index, val) ==
    [s EXCEPT !.additions = Append(@, DiffRangeRaw(Len(remote), Len(val))),
              !.remote = remote \o val,
              !.baseIndex = baseIndex,
              !.skip = 0,
              !.take = Max(s.take, index + 0)]

\* SEQDELETE: val is the stringified base[index] (and postfix)
ListDeleted(s, remote, baseIndex, index, length, val) ==
    [s EXCEPT !.deletions = Append(@, DiffRangeRaw(baseIndex, Len(val))),
              !.remote = remote,
              !.baseIndex = baseIndex + Len(val),
              !.skip = length,
              !.take = Max(s.take, index + length)]

\* PATCH: pd is what the recursive patchStringified returned, valb the
\* stringified base[index]
ListPatched(s, remote, baseIndex, index, pd, valb) ==
    IF IsThrow(pd) THEN pd
    ELSE [s EXCEPT !.additions = @ \o OffsetAll(Len(remote), pd.additions),
                   !.deletions = @ \o OffsetAll(Len(remote), pd.deletions),
                   !.baseIndex = baseIndex + Len(valb),
                   !.remote = remote \o pd.remote \o postfix,
                   !.skip = 1,
                   !.take = Max(s.take, index + 1)]

\* the op of entry e applied after the unchanged values were taken; an op
\* that is none of the three falls through to the take update
ListApply(s, e, b, level, unchanged) ==
    IF e.op = SEQINSERT
    THEN ListInserted(s, s.remote \o unchanged, s.baseIndex + Len(unchanged), e.key.n,
                      stringify(e.valuelist, level + 1, TRUE) \o postfix)
    ELSE IF e.op = SEQDELETE
    THEN IF At(b, e.key.n).t = "undef" THEN Throw("TypeError")
         ELSE ListDeleted(s, s.remote \o unchanged, s.baseIndex + Len(unchanged),
                          e.key.n, e.length,
                          stringify(At(b, e.key.n), level + 1, TRUE) \o postfix)
    ELSE IF e.op = PATCH
    THEN IF At(b, e.key.n).t = "undef" THEN Throw("TypeError")
         ELSE ListPatched(s, s.remote \o unchanged, s.baseIndex + Len(unchanged),
                          e.key.n,
                          patchStringified(At(b, e.key.n), e.diff, level + 1),
                          stringify(At(b, e.key.n), level + 1, TRUE))
    ELSE [s EXCEPT !.remote = s.remote \o unchanged,
                   !.baseIndex = s.baseIndex + Len(unchanged),
                   !.take = Max(s.take, e.key.n + s.skip)]

\* one iteration of patchStringifiedList's loop, for entry e
ListStep(s, e, b, level) ==
    ListApply(s, e, b, level, ListUnchanged(s, b, e.key.n, level))

\* after the loop: the unchanged values at the end, and the brackets
ListReturn(s, b, level) ==
    LET tail == IF Len(b.a) > s.take
                THEN stringify(Arr(Slice(b.a, s.take, Len(b.a))), level + 1, TRUE)
                     \o postfix
                ELSE <<>>
        indent == repeat_string(JSON_INDENT, level)
        remote == indent \o <<"[", "\n">> \o StripPostfix(s.remote \o tail)
                  \o <<"\n">> \o indent \o <<"]">>
    IN  Result(remote,
               OffsetAll(Len(indent) + 2, s.additions),
               OffsetAll(Len(indent) + 2, s.deletions))

RECURSIVE ListRun(_, _, _, _)
ListRun(s, d, b, level) ==
    IF IsThrow(s) \/ d = <<>> THEN s
    ELSE ListRun(ListStep(s, Head(d), b, level), Tail(d), b, level)

patchStringifiedList(b, d, level) ==
    LET s == ListRun(ListStart, d, b, level)
    IN  IF IsThrow(s) THEN s ELSE ListReturn(s, b, level)

(* patchStringifiedObject *)

StringifiedObjectStart ==
    [t |-> "run", remote |-> <<>>, additions |-> <<>>, deletions |-> <<>>,
     baseIndex |-> 0]

\* op_keys: the key of every entry of the diff
OpKeys(d) == [i \in 1..Len(d) |-> d[i].key.s]

\* ops[key]: the last entry of the diff with that key
OpFor(d, key) ==
    d[CHOOSE i \in 1..Len(d) :
        d[i].key.s = key /\ \A j \in (i + 1)..Len(d) : d[j].key.s # key]

\* ADD or REPLACE: valr is the stringified new value (and postfix)
ObjectAdded(s, keyString, valr) ==
    [s EXCEPT !.additions = Append(@, DiffRangeRaw(Len(s.remote),
                                                  Len(keyString) + Len(valr))),
              !.remote = @ \o keyString \o valr]

\* REMOVE or REPLACE: valb is the stringified old value (and postfix)
ObjectRemoved(s, keyString, valb) ==
    [s EXCEPT !.deletions = Append(@, DiffRangeRaw(s.baseIndex,
                                                  Len(keyString) + Len(valb))),
              !.baseIndex = @ + Len(valb)]

\* PATCH: pd is what the recursive patchStringified returned, valb the
\* stringified old value
ObjectPatchedText(s, keyString, indentLen, pd, valb) ==
    IF IsThrow(pd) THEN pd
    ELSE [s EXCEPT
            !.remote = @ \o keyString \o Slice(pd.remote, indentLen, Len(pd.remote))
                         \o postfix,
            !.additions = @ \o OffsetAll(Len(s.remote) + Len(keyString) - indentLen,
                                         pd.additions),
            !.deletions = @ \o OffsetAll(Len(s.remote) + Len(keyString) - indentLen,
                                         pd.deletions),
            !.baseIndex = @ + Len(valb) + Len(keyString) + Len(postfix)]

\* an entry without a change: val is the key string, the stringified
\* value and postfix
ObjectUnchanged(s, val) ==
    [s EXCEPT !.remote = @ \o val, !.baseIndex = @ + Len(val)]

\* the entry e of the diff for key, applied; old is base[key]
ObjectApply(s, e, old, keyString, level) ==
    IF e.op \in {ADD, REPLACE, REMOVE}
    THEN IF e.op = ADD
         THEN ObjectAdded(s, keyString, stringify(e.value, level + 1, FALSE) \o postfix)
         ELSE IF old.t = "undef" THEN Throw("TypeError")
         ELSE IF e.op = REMOVE
         THEN ObjectRemoved(s, keyString, stringify(old, level + 1, FALSE) \o postfix)
         ELSE ObjectRemoved(
                ObjectAdded(s, keyString,
                            stringify(e.value, level + 1, FALSE) \o postfix),
                keyString, stringify(old, level + 1, FALSE) \o postfix)
    ELSE IF e.op = PATCH
    THEN IF old.t \in {"undef", "null"} THEN Throw("TypeError")
         ELSE ObjectPatchedText(s, keyString, (level + 1) * Len(JSON_INDENT),
                                patchStringified(old, e.diff, level + 1),
                                stringify(old, level + 1, FALSE))
    ELSE Throw("Invalid op ")

\* one iteration of patchStringifiedObject's loop, for key
StringifiedObjectStep(s, key, d, b, level) ==
    IF valueIn(key, OpKeys(d))
    THEN ObjectApply(s, OpFor(d, key), GetKey(ObjView(b), key),
                     makeKeyString(key, level + 1), level)
    ELSE ObjectUnchanged(s, makeKeyString(key, level + 1)
                            \o stringify(GetKey(ObjView(b), key), level + 1, FALSE)
                            \o postfix)

\* after the loop: the braces
StringifiedObjectReturn(s, level) ==
    LET indent == repeat_string(JSON_INDENT, level)
        remote == indent \o <<"{", "\n">> \o StripPostfix(s.remote)
                  \o <<"\n">> \o indent \o <<"}">>
    IN  Result(remote,
               OffsetAll(Len(indent) + 2, s.additions),
               OffsetAll(Len(indent) + 2, s.deletions))

RECURSIVE StringifiedObjectRun(_, _, _, _, _)
StringifiedObjectRun(s, keys, d, b, level) ==
    IF IsThrow(s) \/ keys = <<>> THEN s
    ELSE StringifiedObjectRun(StringifiedObjectStep(s, Head(keys), d, b, level),
                              Tail(keys), d, b, level)

\* Object.keys raises on null and undefined
patchStringifiedObject(b, d, level) ==
    IF b.t \in {"null", "undef"} THEN Throw("TypeError")
    ELSE LET s == StringifiedObjectRun(StringifiedObjectStart,
                                       getAllKeys(b, OpKeys(d)), d, b, level)
         IN  IF IsThrow(s) THEN s ELSE StringifiedObjectReturn(s, level)

patchStringified(b, d, level) ==
    IF b.t = "str" THEN patchString(b, d, level)
    ELSE IF b.t = "arr" THEN patchStringifiedList(b, d, level)
    ELSE patchStringifiedObject(b, d, level)


-----------------------------------------------------------------------------
(* diffutil.ts: positions of raw ranges *)

\* CodeMirror.Pos(line, ch)
Pos(line, ch) == [line |-> line, ch |-> ch]

\* new DiffRangePos(from, to, chunkStartLine, endsOnNewline)
DiffRangePos(from, to, chunkStartLine, endsOnNewline) ==
    [from |-> from, to |-> to,
     chunkStartLine |-> chunkStartLine = TRUE,
     endsOnNewline |-> endsOnNewline = TRUE]

\* the indices (from 0) of the newlines of text from index i on, ascending
RECURSIVE NewlineIndices(_, _)
NewlineIndices(text, i) ==
    IF i >= Len(text) THEN <<>>
    ELSE IF text[i + 1] = "\n" THEN <<i>> \o NewlineIndices(text, i + 1)
    ELSE NewlineIndices(text, i + 1)

\* nlPos.indexOf(x) !== -1
IsNewlineIndex(nlPos, x) == \E n \in 1..Len(nlPos) : nlPos[n] = x

\* a variant of findLineNumber that looks for the first newline position
\* after index
findLineNumberAfter(nlPos, index) ==
    IF Len(nlPos) = 0 THEN 0
    ELSE IF \E n \in 1..Len(nlPos) : nlPos[n] > index
    THEN (CHOOSE n \in 1..Len(nlPos) :
             nlPos[n] > index /\ \A k \in 1..(n - 1) : nlPos[k] <= index) - 1
    ELSE Len(nlPos)

\* the index (from 0) of the first newline position not before index, the
\* number of newlines when there is none
findLineNumber(nlPos, index) ==
    IF Len(nlPos) = 0 THEN 0
    ELSE IF \E n \in 1..Len(nlPos) : nlPos[n] >= index
    THEN (CHOOSE n \in 1..Len(nlPos) :
             nlPos[n] >= index /\ \A k \in 1..(n - 1) : nlPos[k] < index) - 1
    ELSE Len(nlPos)

\* the index at which line starts
LineStartIdx(adIdx, line) == IF line > 0 THEN adIdx[line] + 1 ELSE 0

\* the body of raw2Pos's loop, for raw range r
RawToPos(r, text, adIdx) ==
    LET from == Pos(findLineNumber(adIdx, r.from),
                    r.from - LineStartIdx(adIdx, findLineNumber(adIdx, r.from)))
        to == Pos(findLineNumber(adIdx, r.to - 1),
                  r.to - LineStartIdx(adIdx, findLineNumber(adIdx, r.to - 1)))
        startsOnNewLine == IsNewlineIndex(adIdx, r.from)
        endsOnNewline == IsNewlineIndex(adIdx, r.to - 1)
        firstLineNew ==
            from.ch = 0
            /\ (from.line # to.line \/ endsOnNewline \/ r.to = Len(text))
        chunkFirstLine ==
            \/ firstLineNew
            \/ ~startsOnNewLine
            \/ (~IsNewlineIndex(adIdx, r.from - 1) /\ ~IsNewlineIndex(adIdx, r.to))
    IN  DiffRangePos(from, to, chunkFirstLine, endsOnNewline)

raw2Pos(raws, text) ==
    [n \in 1..Len(raws) |-> RawToPos(raws[n], text, NewlineIndices(text, 0))]

-----------------------------------------------------------------------------
(* diffmodel.ts: StringDiffModel, Chunk and getChunks *)

\* new StringDiffModel(base, remote, additions, deletions), both texts given
StringDiffModel(b, remote, additions, deletions) ==
    [t |-> "model", base |-> b, remote |-> remote,
     additions |-> raw2Pos(additions, remote),
     deletions |-> raw2Pos(deletions, b)]

\* a variant of Chunk that takes the line spans of the two views for each
\* other
ChunkViewsSwapped(editFrom, editTo, origFrom, origTo) ==
    [t |-> "chunk", editFrom |-> origFrom, editTo |-> origTo,
     origFrom |-> editFrom, origTo |-> editTo]

\* new Chunk(editFrom, editTo, origFrom, origTo)
Chunk(editFrom, editTo, origFrom, origTo) ==
    [t |-> "chunk", editFrom |-> editFrom, editTo |-> editTo,
     origFrom |-> origFrom, origTo |-> origTo]

inEdit(c, line) == line >= c.editFrom /\ line <= c.editTo

inOrig(c, line) == line >= c.origFrom /\ line <= c.origTo

\* the local variables of getChunks before its loop; current is None for
\* null
ChunksStart ==
    [t |-> "run", chunks |-> <<>>, startEdit |-> 0, startOrig |-> 0,
     editOffset |-> 0, ia |-> 0, id |-> 0, current |-> None]

\* the loop goes on: a range is left
MoreRanges(g, m) == g.ia < Len(m.additions) \/ g.id < Len(m.deletions)

\* which list the next range is taken from
NextIsAddition(g, m) ==
    IF g.ia < Len(m.additions)
    THEN IF g.id < Len(m.deletions)
         THEN LET ra == m.additions[g.ia + 1]
                  rd == m.deletions[g.id + 1]
              IN  \/ ra.from.line < rd.from.line - g.editOffset
                  \/ (ra.from.line = rd.from.line - g.editOffset
                      /\ ra.from.ch <= rd.from.ch)
         ELSE TRUE
    ELSE FALSE

\* a variant of LineDiff that subtracts the other way round
LineDiffReversed(range) ==
    (range.from.line - range.to.line) - (IF range.endsOnNewline THEN 1 ELSE 0)

\* range.to.line - range.from.line, one more when it ends on a newline
LineDiff(range) ==
    (range.to.line - range.from.line) + (IF range.endsOnNewline THEN 1 ELSE 0)

\* the chunk a range opens
OpenChunk(g, range, isAddition) ==
    LET linediff == LineDiff(range)
        firstLineNew == range.from.ch = 0 /\ linediff > 0
        startOffset == IF range.chunkStartLine THEN 0 ELSE 1
        endOffset == IF range.chunkStartLine /\ range.endsOnNewline /\ firstLineNew
                     THEN 0 ELSE 1
        startOrig == IF isAddition THEN range.from.line
                     ELSE range.from.line - g.editOffset
        startEdit == IF isAddition THEN range.from.line + g.editOffset
                     ELSE range.from.line
    IN  [g EXCEPT !.startOrig = startOrig,
                  !.startEdit = startEdit,
                  !.current =
                      IF isAddition
                      THEN Chunk(startEdit + startOffset, startEdit + endOffset,
                                 startOrig + startOffset,
                                 startOrig + endOffset + linediff)
                      ELSE Chunk(startEdit + startOffset,
                                 startEdit + endOffset + linediff,
                                 startOrig + startOffset, startOrig + endOffset)]

\* the open chunk takes the range when the range starts inside it; else it
\* is pushed and a new one opened
PlaceRange(g, range, isAddition) ==
    IF g.current = None THEN OpenChunk(g, range, isAddition)
    ELSE IF isAddition /\ inOrig(g.current, range.from.line)
    THEN [g EXCEPT !.current.origTo = Max(@, range.to.line + 1)]
    ELSE IF ~isAddition /\ inEdit(g.current, range.from.line)
    THEN [g EXCEPT !.current.editTo = Max(@, range.to.line + 1)]
    ELSE OpenChunk([g EXCEPT !.chunks = Append(@, g.current)], range, isAddition)

\* one iteration of getChunks's loop that takes a range
ChunksTake(g, range, isAddition) ==
    [PlaceRange(g, range, isAddition) EXCEPT
        !.ia = IF isAddition THEN @ + 1 ELSE @,
        !.id = IF isAddition THEN @ ELSE @ + 1,
        !.editOffset = IF isAddition THEN @ - LineDiff(range) ELSE @ + LineDiff(range)]

ChunksStep(g, m) ==
    IF NextIsAddition(g, m)
    THEN ChunksTake(g, m.additions[g.ia + 1], TRUE)
    ELSE ChunksTake(g, m.deletions[g.id + 1], FALSE)

\* the last iteration: the open chunk is pushed and the chunks returned
ChunksReturn(g) ==
    IF g.current # None THEN Append(g.chunks, g.current) ELSE g.chunks

-----------------------------------------------------------------------------
(* Diffs valid against a base, and the inputs of the model *)

AddRange(k, vl) == [op |-> SEQINSERT, key |-> k, valuelist |-> vl]
RemoveRange(k, n) == [op |-> SEQDELETE, key |-> k, length |-> n]
PatchOp(k, d) == [op |-> PATCH, key |-> k, diff |-> d]
AddOp(k, v) == [op |-> ADD, key |-> k, value |-> v]
RemoveOp(k) == [op |-> REMOVE, key |-> k]
ReplaceOp(k, v) == [op |-> REPLACE, key |-> k, value |-> v]

\* how many base elements an entry of a sequence diff consumes
Span(e) == IF e.op = SEQDELETE THEN e.length ELSE IF e.op = PATCH THEN 1 ELSE 0

\* entry e2 may come after entry e1 in a sequence diff: keys ascend, no
\* base element is consumed twice, and an insertion sits at the start of
\* or after what e1 consumed
Follows(e1, e2) ==
    /\ e1.key.n <= e2.key.n
    /\ (e1.key = e2.key) => (Span(e1) = 0) # (Span(e2) = 0)
    /\ IF e2.op = SEQINSERT
       THEN e2.key = e1.key \/ e2.key.n >= e1.key.n + Span(e1)
       ELSE e2.key.n >= e1.key.n + Span(e1)

IsComposite(v) == v.t \in {"str", "arr", "obj"}

RECURSIVE ValidDiff(_, _)
ValidDiff(b, d) ==
    CASE b.t \in {"str", "arr"} ->
           /\ \A i \in 1..Len(d) :
                /\ d[i].op \in {SEQINSERT, SEQDELETE} \cup
                               (IF b.t = "arr" THEN {PATCH} ELSE {})
                /\ d[i].key.n >= 0
                /\ d[i].key.n + Span(d[i]) <= Length(b)
                /\ d[i].op = SEQINSERT =>
                     d[i].valuelist.t = b.t /\ Length(d[i].valuelist) >= 1
                /\ d[i].op = SEQDELETE => d[i].length >= 1
                /\ d[i].op = PATCH =>
                     /\ IsComposite(At(b, d[i].key.n))
                     /\ ValidDiff(At(b, d[i].key.n), d[i].diff)
           /\ \A i, j \in 1..Len(d) : i < j => Follows(d[i], d[j])
      [] b.t = "obj" ->
           /\ \A i \in 1..Len(d) :
                /\ d[i].op \in {ADD, REMOVE, REPLACE, PATCH}
                /\ d[i].op = ADD <=> ~HasKey(b, d[i].key.s)
                /\ d[i].op = PATCH =>
                     /\ IsComposite(GetKey(b, d[i].key.s))
                     /\ ValidDiff(GetKey(b, d[i].key.s), d[i].diff)
           /\ \A i, j \in 1..Len(d) : i < j => d[i].key # d[j].key
      [] OTHER -> FALSE

\* all sequences of at most n members of S
SeqsUpTo(S, n) == UNION {[1..k -> S] : k \in 0..n}

\* the values a diff inserts
NewNum == Num(7)
NewStrings == {Str(<<"x">>), Str(<<"x", "y">>)}
NewLists == {Arr(<<Num(-1)>>), Arr(<<Num(-1), Num(-2)>>)}

\* the elements of array bases and the values of object bases
ElemValues ==
    {Num(1), Str(<<"a", "\n">>), Arr(<<Num(2)>>), Obj(<<KV(<<"x">>, Num(2))>>)}

\* entries without a nested diff that fit a base
FlatEntries(b) ==
    CASE b.t = "str" ->
           {AddRange(Num(k), v) : k \in 0..Len(b.s), v \in NewStrings}
           \cup {RemoveRange(Num(k), n) : k \in 0..(Len(b.s) - 1), n \in 1..Len(b.s)}
      [] b.t = "arr" ->
           {AddRange(Num(k), v) : k \in 0..Len(b.a), v \in NewLists}
           \cup {RemoveRange(Num(k), n) : k \in 0..(Len(b.a) - 1), n \in 1..Len(b.a)}
      [] b.t = "obj" ->
           {AddOp(Str(<<"c">>), NewNum)}
           \cup {RemoveOp(Str(b.o[i].k)) : i \in 1..Len(b.o)}
           \cup {ReplaceOp(Str(b.o[i].k), NewNum) : i \in 1..Len(b.o)}
      [] OTHER -> {}

\* the diffs nested under a patch entry: one flat entry, or a removal and
\* an insertion at the same index
NestedDiffs(b) ==
    {d \in {<<e>> : e \in FlatEntries(b)}
           \cup (IF b.t = "str"
                 THEN {<<RemoveRange(Num(0), 1), AddRange(Num(0), Str(<<"x">>))>>}
                 ELSE {}) :
       ValidDiff(b, d)}

PatchEntries(b) ==
    CASE b.t = "arr" ->
           UNION {{PatchOp(Num(k), d) : d \in NestedDiffs(At(b, k))} :
                    k \in {i \in 0..(Len(b.a) - 1) : IsComposite(At(b, i))}}
      [] b.t = "obj" ->
           UNION {{PatchOp(Str(b.o[i].k), d) : d \in NestedDiffs(b.o[i].v)} :
                    i \in {j \in 1..Len(b.o) : IsComposite(b.o[j].v)}}
      [] OTHER -> {}

ValidDiffs(b) ==
    {d \in SeqsUpTo(FlatEntries(b) \cup PatchEntries(b), MaxDiff) : ValidDiff(b, d)}

\* entries whose op is unknown, or not an op of the base's type
BadEntries(b) ==
    CASE b.t \in {"str", "arr"} ->
           {AddOp(Num(0), NewNum), RemoveOp(Num(0)), ReplaceOp(Num(0), NewNum),
            [op |-> "move", key |-> Num(0)]}
           \cup (IF b.t = "str" THEN {PatchOp(Num(0), <<>>)} ELSE {})
      [] b.t = "obj" ->
           {AddRange(Str(<<"a">>), Arr(<<NewNum>>)), RemoveRange(Str(<<"a">>), 1),
            [op |-> "move", key |-> Str(<<"a">>)]}
      [] OTHER -> {}

\* malformed diffs: a bad entry alone, after a valid entry, or nested under
\* a patch entry; for an object also an add of a key it has
MalformedDiffs(b) ==
    {<<e>> : e \in BadEntries(b)}
    \cup {<<v, e>> : v \in {x \in FlatEntries(b) : ValidDiff(b, <<x>>)},
                     e \in BadEntries(b)}
    \cup (CASE b.t = "arr" ->
                 UNION {{<<PatchOp(Num(k), <<e>>)>> : e \in BadEntries(At(b, k))} :
                          k \in 0..(Len(b.a) - 1)}
            [] b.t = "obj" ->
                 UNION {{<<PatchOp(Str(b.o[i].k), <<e>>)>> : e \in BadEntries(b.o[i].v)} :
                          i \in 1..Len(b.o)}
                 \cup {<<AddOp(Str(b.o[i].k), NewNum)>> : i \in 1..Len(b.o)}
            [] OTHER -> {})

\* a removal and an insertion at the same index, in either order
SameIndexPair(k, n, v) ==
    {<<RemoveRange(Num(k), n), AddRange(Num(k), v)>>,
     <<AddRange(Num(k), v), RemoveRange(Num(k), n)>>}

\* diffs of a string made of two such pairs, at increasing indices
PairDiffs(b) ==
    IF b.t # "str" THEN {}
    ELSE {d \in UNION {{p \o q : p \in SameIndexPair(k[1], n[1], v[1]),
                                 q \in SameIndexPair(k[2], n[2], v[2])} :
                         k \in [1..2 -> 0..(Len(b.s) - 1)],
                         n \in [1..2 -> 1..Len(b.s)],
                         v \in [1..2 -> NewStrings]} :
            ValidDiff(b, d)}

StringBases == {Str(s) : s \in SeqsUpTo({"a", "b"}, MaxStr)}
ListBases == {Arr(a) : a \in SeqsUpTo(ElemValues, MaxList)}
ObjectBases ==
    {Obj(<<>>)}
    \cup {Obj(<<KV(<<"a">>, v)>>) : v \in ElemValues}
    \cup {Obj(<<KV(<<"a">>, v), KV(<<"b">>, w)>>) : v, w \in ElemValues}
    \cup {Obj(<<KV(<<"b">>, v), KV(<<"a">>, w)>>) : v, w \in ElemValues}
    \cup {Obj(<<KV(<<"a">>, Null)>>), Obj(<<KV(<<"a">>, Null), KV(<<"b">>, Num(1))>>)}

-----------------------------------------------------------------------------
(* The patch machine: patchStringified(base, diff), then patch(base, diff), *)
(* each top-level loop one iteration at a time                              *)

InitOf(bases) ==
    /\ base \in bases
    /\ diff \in ValidDiffs(base) \cup MalformedDiffs(base) \cup PairDiffs(base)
    /\ pc = "start"
    /\ cursor = 1
    /\ st = None
    /\ out = None
    /\ pout = None
    /\ model = None
    /\ gc = None
    /\ chunks = None
    /\ options = None
    /\ mv = None

\* the loop state after an iteration, or the exception that ends the call
Iterate(next, result, after) ==
    IF IsThrow(next)
    THEN /\ result' = next
         /\ pc' = after
         /\ cursor' = 1
         /\ st' = None
    ELSE /\ st' = next
         /\ cursor' = cursor + 1
         /\ UNCHANGED <<pc, result>>

Finish(value, result, after) ==
    /\ result' = value
    /\ pc' = after
    /\ cursor' = 1
    /\ st' = None

\* patchStringified(base, diff): level is 0, dispatch on the type of base
CallPatchStringified ==
    /\ pc = "start"
    /\ pc' = IF base.t = "str" THEN "patchString"
             ELSE IF base.t = "arr" THEN "patchStringifiedList"
             ELSE "patchStringifiedObject"
    /\ st' = IF base.t = "str" THEN StringStart
             ELSE IF base.t = "arr" THEN ListStart
             ELSE StringifiedObjectStart
    /\ cursor' = 1
    /\ UNCHANGED <<base, diff, out, pout, model, gc, chunks, options, mv>>

StringLoop ==
    /\ pc = "patchString"
    /\ cursor <= Len(diff)
    /\ Iterate(StringStep(st, diff[cursor], base), out, "returned")
    /\ UNCHANGED <<base, diff, pout, model, gc, chunks, options, mv>>

StringEnd ==
    /\ pc = "patchString"
    /\ cursor > Len(diff)
    /\ Finish(StringReturn(st, base, 0), out, "returned")
    /\ UNCHANGED <<base, diff, pout, model, gc, chunks, options, mv>>

ListLoop ==
    /\ pc = "patchStringifiedList"
    /\ cursor <= Len(diff)
    /\ Iterate(ListStep(st, diff[cursor], base, 0), out, "returned")
    /\ UNCHANGED <<base, diff, pout, model, gc, chunks, options, mv>>

ListEnd ==
    /\ pc = "patchStringifiedList"
    /\ cursor > Len(diff)
    /\ Finish(ListReturn(st, base, 0), out, "returned")
    /\ UNCHANGED <<base, diff, pout, model, gc, chunks, options, mv>>

\* all_keys of the running patchStringifiedObject
all_keys == getAllKeys(base, OpKeys(diff))

StringifiedObjectLoop ==
    /\ pc = "patchStringifiedObject"
    /\ cursor <= Len(all_keys)
    /\ Iterate(StringifiedObjectStep(st, all_keys[cursor], diff, base, 0), out, "returned")
    /\ UNCHANGED <<base, diff, pout, model, gc, chunks, options, mv>>

StringifiedObjectEnd ==
    /\ pc = "patchStringifiedObject"
    /\ cursor > Len(all_keys)
    /\ Finish(StringifiedObjectReturn(st, 0), out, "returned")
    /\ UNCHANGED <<base, diff, pout, model, gc, chunks, options, mv>>

\* patch(base, diff): dispatch on the type of base
CallPatch ==
    /\ pc = "returned"
    /\ pc' = IF base.t \in {"str", "arr"} THEN "patchSequence" ELSE "patchObject"
    /\ st' = IF base.t \in {"str", "arr"} THEN SequenceStart(base) ELSE ObjectStart(base)
    /\ cursor' = 1
    /\ UNCHANGED <<base, diff, out, pout, model, gc, chunks, options, mv>>

SequenceLoop ==
    /\ pc = "patchSequence"
    /\ cursor <= Len(diff)
    /\ Iterate(SequenceStep(st, diff[cursor], base), pout, "done")
    /\ UNCHANGED <<base, diff, out, model, gc, chunks, options, mv>>

SequenceEnd ==
    /\ pc = "patchSequence"
    /\ cursor > Len(diff)
    /\ Finish(SequenceReturn(st, base), pout, "done")
    /\ UNCHANGED <<base, diff, out, model, gc, chunks, options, mv>>

ObjectLoop ==
    /\ pc = "patchObject"
    /\ cursor <= Len(diff)
    /\ Iterate(ObjectStep(st, diff[cursor], base), pout, "done")
    /\ UNCHANGED <<base, diff, out, model, gc, chunks, options, mv>>

ObjectEnd ==
    /\ pc = "patchObject"
    /\ cursor > Len(diff)
    /\ Finish(ObjectReturn(st, base), pout, "done")
    /\ UNCHANGED <<base, diff, out, model, gc, chunks, options, mv>>

\* string bases
InitString == InitOf(StringBases)

NextString ==
    \/ CallPatchStringified
    \/ StringLoop
    \/ StringEnd
    \/ CallPatch
    \/ SequenceLoop
    \/ SequenceEnd

SpecString == InitString /\ [][NextString]_vars

\* every base
Init == InitOf(StringBases \cup ListBases \cup ObjectBases)

Next ==
    \/ CallPatchStringified
    \/ StringLoop
    \/ StringEnd
    \/ ListLoop
    \/ ListEnd
    \/ StringifiedObjectLoop
    \/ StringifiedObjectEnd
    \/ CallPatch
    \/ SequenceLoop
    \/ SequenceEnd
    \/ ObjectLoop
    \/ ObjectEnd

Spec == Init /\ [][Next]_vars

-----------------------------------------------------------------------------
(* The chunk machine: a PatchDiffModel of a text and a diff, then its *)
(* getChunks, one iteration of the loop at a time                     *)

\* the texts a diff inserts into a text
NewTexts == {Str(<<"x">>), Str(<<"\n">>), Str(<<"x", "\n">>), Str(<<"\n", "x">>)}

TextBases == {Str(s) : s \in SeqsUpTo({"a", "\n"}, MaxStr)}

TextEntries(b) ==
    {AddRange(Num(k), v) : k \in 0..Len(b.s), v \in NewTexts}
    \cup {RemoveRange(Num(k), n) : k \in 0..(Len(b.s) - 1), n \in 1..Len(b.s)}

TextDiffs(b) == {d \in SeqsUpTo(TextEntries(b), MaxDiff) : ValidDiff(b, d)}

InitChunks ==
    /\ base \in TextBases
    /\ diff \in TextDiffs(base)
    /\ pc = "start"
    /\ cursor = 1
    /\ st = None
    /\ out = None
    /\ pout = None
    /\ model = None
    /\ gc = None
    /\ chunks = None
    /\ options = None
    /\ mv = None

\* base_str of the PatchDiffModel constructor
base_str == IF base.t = "str" THEN base.s ELSE stringify(base, 0, TRUE)

\* the PatchDiffModel constructor after its patchStringified call: the
\* StringDiffModel constructor
NewStringDiffModel ==
    /\ pc = "returned"
    /\ ~IsThrow(out)
    /\ model' = StringDiffModel(base_str, out.remote, out.additions, out.deletions)
    /\ pc' = "model"
    /\ UNCHANGED <<base, diff, cursor, st, out, pout, gc, chunks, options, mv>>

CallGetChunks ==
    /\ pc = "model"
    /\ gc' = ChunksStart
    /\ pc' = "getChunks"
    /\ UNCHANGED <<base, diff, cursor, st, out, pout, model, chunks, options, mv>>

ChunksLoop ==
    /\ pc = "getChunks"
    /\ MoreRanges(gc, model)
    /\ gc' = ChunksStep(gc, model)
    /\ UNCHANGED <<base, diff, pc, cursor, st, out, pout, model, chunks, options, mv>>

ChunksEnd ==
    /\ pc = "getChunks"
    /\ ~MoreRanges(gc, model)
    /\ chunks' = ChunksReturn(gc)
    /\ gc' = None
    /\ pc' = "chunked"
    /\ UNCHANGED <<base, diff, cursor, st, out, pout, model, options, mv>>

NextChunks ==
    \/ CallPatchStringified
    \/ StringLoop
    \/ StringEnd
    \/ NewStringDiffModel
    \/ CallGetChunks
    \/ ChunksLoop
    \/ ChunksEnd

SpecChunks == InitChunks /\ [][NextChunks]_vars

-----------------------------------------------------------------------------
(* mergeview.ts: the MergeView constructor, on the DiffViewModels of *)
(* diffmodel.ts that it takes as options.remote and options.local    *)

\* an IEditorModel: an object (told apart by id) that holds a text
EditorModel(id, text) == [t |-> "editor", id |-> id, text |-> text]

\* the position of a string index in text, as the raw2Pos of diffmodel.ts
\* finds it: the line is the number of newlines at or before the index
PosIn(text, index) ==
    LET before == {j \in 0..(Len(text) - 1) : text[j + 1] = "\n" /\ j <= index}
        lineStartIdx == IF before = {} THEN 0
                        ELSE 1 + CHOOSE j \in before : \A x \in before : x <= j
    IN  Pos(Cardinality(before), index - lineStartIdx)

\* new DiffViewModel(base, our, additions, deletions)
DiffViewModel(b, our, additions, deletions) ==
    [t |-> "viewmodel", base |-> b, our |-> our,
     deletions |-> IF b = Null THEN <<>>
                   ELSE [i \in 1..Len(deletions) |->
                           [from |-> PosIn(b.text, deletions[i].from),
                            to |-> PosIn(b.text, deletions[i].to)]],
     additions |-> IF our = Null THEN <<>>
                   ELSE [i \in 1..Len(additions) |->
                           [from |-> PosIn(our.text, additions[i].from),
                            to |-> PosIn(our.text, additions[i].to)]]]

\* DiffViewModel.unchanged()
ModelUnchanged(m) == Len(m.additions) = 0 /\ Len(m.deletions) = 0

\* new DiffView(model, type)
DiffView(m, type) == [t |-> "diffview", model |-> m, type |-> type]

\* the base documents: two objects with the same text and one with another
BaseEditors ==
    {EditorModel(1, <<"a", "\n">>), EditorModel(2, <<"a", "\n">>),
     EditorModel(3, <<"b", "\n">>)}

\* the models of a base: unchanged, with a line added, with its line deleted
ViewModelsOf(b) ==
    {DiffViewModel(b, EditorModel(b.id + 10, b.text), <<>>, <<>>),
     DiffViewModel(b, EditorModel(b.id + 20, b.text \o <<"x", "\n">>),
                   <<DiffRangeRaw(Len(b.text), 2)>>, <<>>),
     DiffViewModel(b, EditorModel(b.id + 30, <<>>),
                   <<>>, <<DiffRangeRaw(0, Len(b.text))>>)}

ViewModels == UNION {ViewModelsOf(b) : b \in BaseEditors}

InitMerge ==
    /\ options \in {[remote |-> r, local |-> l, merged |-> Null] :
                      r \in ViewModels, l \in ViewModels \cup {Null}}
    /\ mv = None
    /\ pc = "MergeView"
    /\ base = None
    /\ diff = None
    /\ cursor = 1
    /\ st = None
    /\ out = None
    /\ pout = None
    /\ model = None
    /\ gc = None
    /\ chunks = None

\* this, with what console.assert has logged and the exception raised
View(left, right, node, console, error) ==
    [t |-> "view", left |-> left, right |-> right, node |-> node,
     console |-> console, error |-> error]

\* the constructor up to console.assert(remote.base == local.base): a
\* failed console.assert logs and returns; local.base of null raises
MergeViewAssert ==
    /\ pc = "MergeView"
    /\ IF options.local = Null
       THEN /\ mv' = View(Null, Null, <<>>, <<>>, Throw("TypeError"))
            /\ pc' = "thrown"
       ELSE /\ mv' = View(Null, Null, <<>>,
                          IF options.remote.base = options.local.base
                          THEN <<>> ELSE <<"Assertion failed">>,
                          None)
            /\ pc' = "panes"
    /\ UNCHANGED <<base, diff, cursor, st, out, pout, model, gc, chunks, options>>

\* the panes: a left DiffView for local, the editor, a right DiffView for
\* remote unless it is unchanged, and the wrap appended to node
MergeViewPanes ==
    /\ pc = "panes"
    /\ LET hasRight == ~ModelUnchanged(options.remote)
       IN  mv' = [mv EXCEPT
                    !.left = DiffView(options.local, "left"),
                    !.right = IF hasRight THEN DiffView(options.remote, "right")
                              ELSE Null,
                    !.node = <<<<"left", "gap", "edit">>
                               \o (IF hasRight THEN <<"gap", "right">> ELSE <<>>)>>]
    /\ pc' = "init"
    /\ UNCHANGED <<base, diff, cursor, st, out, pout, model, gc, chunks, options>>

\* left.init(leftPane, origLeft, options): origLeft is declared nowhere
MergeViewInit ==
    /\ pc = "init"
    /\ mv' = [mv EXCEPT !.error = Throw("ReferenceError")]
    /\ pc' = "thrown"
    /\ UNCHANGED <<base, diff, cursor, st, out, pout, model, gc, chunks, options>>

NextMerge ==
    \/ MergeViewAssert
    \/ MergeViewPanes
    \/ MergeViewInit

SpecMerge == InitMerge /\ [][NextMerge]_vars

-----------------------------------------------------------------------------
(* diff/model.ts: the NotebookDiffModel constructor and its list of cell *)
(* diff models                                                           *)

SourceKey == <<"s", "o", "u", "r", "c", "e">>
CellsKey == <<"c", "e", "l", "l", "s">>

\* a notebook cell with the given source
Cell(source) == Obj(<<KV(SourceKey, Str(source))>>)

\* getDiffKey(diff, key): the diff of the first entry with that key, or
\* null when no entry has it
HasDiffKey(d, key) == \E i \in 1..Len(d) : d[i].key = Str(key)

getDiffKey(d, key) ==
    IF HasDiffKey(d, key)
    THEN d[CHOOSE i \in 1..Len(d) :
             d[i].key = Str(key) /\ \A j \in 1..(i - 1) : d[j].key # Str(key)].diff
    ELSE Null

\* a CellDiffModel, as far as its source model goes: the base and the
\* remote source, null on the side where the cell does not exist
CellDiffModel(baseSource, remoteSource) ==
    [t |-> "cell", base |-> baseSource, remote |-> remoteSource]

createUnchangedCellDiffModel(c) ==
    CellDiffModel(GetKey(c, SourceKey), GetKey(c, SourceKey))

createAddedCellDiffModel(c) == CellDiffModel(Null, GetKey(c, SourceKey))

createDeletedCellDiffModel(c) == CellDiffModel(GetKey(c, SourceKey), Null)

\* the source is patched when the cell's diff has an entry for it
createPatchedCellDiffModel(c, d) ==
    IF HasDiffKey(d, SourceKey)
    THEN CellDiffModel(GetKey(c, SourceKey),
                       Str(patchStringified(GetKey(c, SourceKey),
                                            getDiffKey(d, SourceKey), 0).remote))
    ELSE createUnchangedCellDiffModel(c)

\* this.cells, take and skip before the loop
NotebookStart == [t |-> "run", cells |-> <<>>, take |-> 0, skip |-> 0]

\* the models the loop pushes for entry e once the preceding cells are
\* taken as unchanged, and the skip it sets
CellsOfEntry(e, cells, skip) ==
    IF e.op = SEQINSERT
    THEN [cells |-> [i \in 1..Len(e.valuelist.a) |->
                       createAddedCellDiffModel(e.valuelist.a[i])],
          skip |-> 0]
    ELSE IF e.op = SEQDELETE
    THEN [cells |-> [i \in 1..e.length |->
                       createDeletedCellDiffModel(cells[e.key.n + i])],
          skip |-> e.length]
    ELSE IF e.op = PATCH
    THEN [cells |-> <<createPatchedCellDiffModel(cells[e.key.n + 1], e.diff)>>,
          skip |-> 1]
    ELSE [cells |-> <<>>, skip |-> skip]

\* a variant of UnchangedCells that takes no cell
NoUnchangedCells(cells, from, to) == <<>>

\* the unchanged models for base cells [from, to)
UnchangedCells(cells, from, to) ==
    [i \in 1..(to - from) |-> createUnchangedCellDiffModel(cells[from + i])]

\* one iteration of the loop over the cells diff, for entry e
NotebookStep(s, e, cells) ==
    LET pushed == CellsOfEntry(e, cells, s.skip)
    IN  [t |-> "run",
         cells |-> s.cells \o UnchangedCells(cells, s.take, e.key.n) \o pushed.cells,
         skip |-> pushed.skip,
         take |-> Max(s.take, e.key.n + pushed.skip)]

\* after the loop: the unchanged cells at the end
NotebookReturn(s, cells) ==
    [t |-> "notebook", cells |-> s.cells \o UnchangedCells(cells, s.take, Len(cells))]

\* the cells inserted by a cells diff
NewCells == {Arr(<<Cell(<<"7">>)>>), Arr(<<Cell(<<"7">>), Cell(<<"8">>)>>)}

\* base notebooks: cells with the sources "1", "2", ...
Notebooks ==
    {Obj(<<KV(CellsKey, Arr([i \in 1..n |-> Cell(NatStr(i))]))>>) :
       n \in 0..(MaxList + 1)}

\* the entries of a cells diff that fit the cells b
CellEntries(b) ==
    {AddRange(Num(k), v) : k \in 0..Len(b.a), v \in NewCells}
    \cup {RemoveRange(Num(k), n) : k \in 0..(Len(b.a) - 1), n \in 1..Len(b.a)}
    \cup {PatchOp(Num(k), d) :
            k \in 0..(Len(b.a) - 1),
            d \in {<<>>, <<PatchOp(Str(SourceKey),
                                   <<AddRange(Num(0), Str(<<"x">>))>>)>>}}

\* notebook diffs: none, or a valid cells diff
NotebookDiffs(b) ==
    {<<>>} \cup
    {<<PatchOp(Str(CellsKey), d)>> :
       d \in {x \in SeqsUpTo(CellEntries(GetKey(b, CellsKey)), MaxDiff) :
                ValidDiff(GetKey(b, CellsKey), x)}}

InitNotebook ==
    /\ base \in Notebooks
    /\ diff \in NotebookDiffs(base)
    /\ pc = "NotebookDiffModel"
    /\ cursor = 1
    /\ st = None
    /\ out = None
    /\ pout = None
    /\ model = None
    /\ gc = None
    /\ chunks = None
    /\ options = None
    /\ mv = None

\* getDiffKey(diff, 'cells') || []
cells_diff ==
    IF HasDiffKey(diff, CellsKey) THEN getDiffKey(diff, CellsKey) ELSE <<>>

\* base.cells
base_cells == GetKey(base, CellsKey).a

\* new NotebookDiffModel(base, diff), up to the loop over the cells diff
CallNotebookDiffModel ==
    /\ pc = "NotebookDiffModel"
    /\ st' = NotebookStart
    /\ cursor' = 1
    /\ pc' = "cells"
    /\ UNCHANGED <<base, diff, out, pout, model, gc, chunks, options, mv>>

CellsLoop ==
    /\ pc = "cells"
    /\ cursor <= Len(cells_diff)
    /\ st' = NotebookStep(st, cells_diff[cursor], base_cells)
    /\ cursor' = cursor + 1
    /\ UNCHANGED <<base, diff, pc, out, pout, model, gc, chunks, options, mv>>

CellsEnd ==
    /\ pc = "cells"
    /\ cursor > Len(cells_diff)
    /\ model' = NotebookReturn(st, base_cells)
    /\ st' = None
    /\ cursor' = 1
    /\ pc' = "built"
    /\ UNCHANGED <<base, diff, out, pout, gc, chunks, options, mv>>

NextNotebook ==
    \/ CallNotebookDiffModel
    \/ CellsLoop
    \/ CellsEnd

SpecNotebook == InitNotebook /\ [][NextNotebook]_vars

-----------------------------------------------------------------------------
(* mergeview.ts: getMatchingOrigLine and findAlignedLines, on the chunk *)
(* lists of two diff views that share the edit view                     *)

\* a variant of the loop that carries the start of a chunk's orig span
\* where the loop carries its end
RECURSIVE MatchingOrigLineByOrigFrom(_, _, _, _, _)
MatchingOrigLineByOrigFrom(editLine, cs, i, editStart, origStart) ==
    IF i >= Len(cs) THEN Num(origStart + (editLine - editStart))
    ELSE IF cs[i + 1].editTo > editLine /\ cs[i + 1].editFrom <= editLine THEN Null
    ELSE IF cs[i + 1].editFrom > editLine
    THEN Num(origStart + (editLine - editStart))
    ELSE MatchingOrigLineByOrigFrom(editLine, cs, i + 1, cs[i + 1].editTo,
                                    cs[i + 1].origFrom)

\* the rest of getMatchingOrigLine's loop, from chunk i (from 0) on
RECURSIVE MatchingOrigLineFrom(_, _, _, _, _)
MatchingOrigLineFrom(editLine, cs, i, editStart, origStart) ==
    IF i >= Len(cs) THEN Num(origStart + (editLine - editStart))
    ELSE IF cs[i + 1].editTo > editLine /\ cs[i + 1].editFrom <= editLine THEN Null
    ELSE IF cs[i + 1].editFrom > editLine
    THEN Num(origStart + (editLine - editStart))
    ELSE MatchingOrigLineFrom(editLine, cs, i + 1, cs[i + 1].editTo, cs[i + 1].origTo)

getMatchingOrigLine(editLine, cs) == MatchingOrigLineFrom(editLine, cs, 0, 0, 0)

\* array.splice(start, 0, item): a negative start counts from the end
Splice(array, start, item) ==
    LET at == IF start < 0 THEN Max(Len(array) + start, 0)
              ELSE IF start > Len(array) THEN Len(array) ELSE start
    IN  SubSeq(array, 1, at) \o <<item>> \o SubSeq(array, at + 1, Len(array))

\* the first loop of findAlignedLines: a tuple for every chunk of dv
AlignedStart(dv, other) ==
    [i \in 1..Len(dv.chunks) |->
       <<Num(dv.chunks[i].origTo), Num(dv.chunks[i].editTo),
         IF other.t = "null" THEN Null
         ELSE getMatchingOrigLine(dv.chunks[i].editTo, other.chunks)>>]

\* the inner loop over linesToAlign, from j (from 0) on: the value of j
\* after it
RECURSIVE AlignIndex(_, _, _)
AlignIndex(linesToAlign, editTo, j) ==
    IF j >= Len(linesToAlign) THEN j
    ELSE IF linesToAlign[j + 1][2].n = editTo THEN -1
    ELSE IF linesToAlign[j + 1][2].n > editTo THEN j
    ELSE AlignIndex(linesToAlign, editTo, j + 1)

\* the tuple of a chunk of other is spliced in at j - 1
AlignSplice(linesToAlign, j, chunk, dv) ==
    IF j > -1
    THEN Splice(linesToAlign, j - 1,
                <<getMatchingOrigLine(chunk.editTo, dv.chunks), Num(chunk.editTo),
                  Num(chunk.origTo)>>)
    ELSE linesToAlign

\* one iteration of the second loop of findAlignedLines, for a chunk of
\* other
AlignedStep(linesToAlign, chunk, dv) ==
    AlignSplice(linesToAlign, AlignIndex(linesToAlign, chunk.editTo, 0), chunk, dv)

RECURSIVE AlignedRun(_, _, _)
AlignedRun(linesToAlign, cs, dv) ==
    IF cs = <<>> THEN linesToAlign
    ELSE AlignedRun(AlignedStep(linesToAlign, Head(cs), dv), Tail(cs), dv)

findAlignedLines(dv, other) ==
    IF other.t = "null" THEN AlignedStart(dv, other)
    ELSE AlignedRun(AlignedStart(dv, other), other.chunks, dv)

\* a DiffView, of which the two functions read the chunks
ChunkView(cs) == [t |-> "diffview", chunks |-> cs]

\* the chunk lists of a line diff of at most n chunks, from edit line e and
\* orig line o on: the unchanged lines between two chunks are as many in
\* both views, and no chunk is empty in both
RECURSIVE ChunkListsFrom(_, _, _)
ChunkListsFrom(e, o, n) ==
    IF n = 0 THEN {<<>>}
    ELSE {<<>>} \cup UNION {
           {<<Chunk(e + s[1], e + s[1] + s[2], o + s[1], o + s[1] + s[3])>> \o rest :
              rest \in ChunkListsFrom(e + s[1] + s[2], o + s[1] + s[3], n - 1)} :
           s \in {t \in (0..MaxLine) \X (0..MaxLine) \X (0..MaxLine) :
                    /\ t[2] + t[3] > 0
                    /\ e + t[1] + t[2] <= MaxLine
                    /\ o + t[1] + t[3] <= MaxLine}}

ChunkLists == ChunkListsFrom(0, 0, MaxChunks)

InitAlign ==
    /\ options \in {[dv |-> ChunkView(c), other |-> o] :
                      c \in ChunkLists,
                      o \in {ChunkView(d) : d \in ChunkLists} \cup {Null}}
    /\ pc = "start"
    /\ base = None
    /\ diff = None
    /\ cursor = 0
    /\ st = None
    /\ out = None
    /\ pout = None
    /\ model = None
    /\ gc = None
    /\ chunks = None
    /\ mv = None

\* getMatchingOrigLine(editLine, dv.chunks) for a line of the edit view
CallGetMatchingOrigLine ==
    /\ pc = "start"
    /\ \E editLine \in 0..(MaxLine + 1) :
         /\ cursor' = editLine
         /\ out' = getMatchingOrigLine(editLine, options.dv.chunks)
    /\ pc' = "matched"
    /\ UNCHANGED <<base, diff, st, pout, model, gc, chunks, options, mv>>

\* findAlignedLines(dv, other) up to its second loop
CallFindAlignedLines ==
    /\ pc = "start"
    /\ st' = AlignedStart(options.dv, options.other)
    /\ cursor' = 0
    /\ pc' = "findAlignedLines"
    /\ UNCHANGED <<base, diff, out, pout, model, gc, chunks, options, mv>>

\* the chunks the second loop walks: none when other is null
other_chunks == IF options.other.t = "null" THEN <<>> ELSE options.other.chunks

AlignedLoop ==
    /\ pc = "findAlignedLines"
    /\ cursor < Len(other_chunks)
    /\ st' = AlignedStep(st, other_chunks[cursor + 1], options.dv)
    /\ cursor' = cursor + 1
    /\ UNCHANGED <<base, diff, pc, out, pout, model, gc, chunks, options, mv>>

AlignedEnd ==
    /\ pc = "findAlignedLines"
    /\ cursor >= Len(other_chunks)
    /\ pout' = st
    /\ st' = None
    /\ pc' = "aligned"
    /\ UNCHANGED <<base, diff, cursor, out, model, gc, chunks, options, mv>>

NextAlign ==
    \/ CallGetMatchingOrigLine
    \/ CallFindAlignedLines
    \/ AlignedLoop
    \/ AlignedEnd

SpecAlign == InitAlign /\ [][NextAlign]_vars

-----------------------------------------------------------------------------
(* diff/model.ts: StringDiffModel.DiffIter and SyncedDiffIter, over the *)
(* addition and deletion ranges of a list of string diff models         *)

\* a DiffIterValue
DiffIterValue(range, isAddition) ==
    [t |-> "value", range |-> range, isAddition |-> isAddition]

\* a new DiffIter
DiffIter == [ia |-> 0, id |-> 0, editOffset |-> 0, done |-> FALSE]

\* whether DiffIter.next takes an addition: "none" when it is out of ranges
NextIsAdditionOf(it, m) ==
    IF it.ia < Len(m.additions)
    THEN IF it.id < Len(m.deletions)
         THEN \/ m.additions[it.ia + 1].from.line
                   < m.deletions[it.id + 1].from.line - it.editOffset
              \/ /\ m.additions[it.ia + 1].from.line
                      = m.deletions[it.id + 1].from.line - it.editOffset
                 /\ m.additions[it.ia + 1].from.ch <= m.deletions[it.id + 1].from.ch
         ELSE TRUE
    ELSE FALSE

\* the lines a range spans, one more when it ends on a newline
linediff(range) ==
    range.to.line - range.from.line + (IF range.endsOnNewline THEN 1 ELSE 0)

\* DiffIter.next(): the iterator after the call and the value returned
DiffIterNext(it, m) ==
    IF it.ia >= Len(m.additions) /\ it.id >= Len(m.deletions)
    THEN [it |-> [it EXCEPT !.done = TRUE], value |-> Null]
    ELSE IF NextIsAdditionOf(it, m)
    THEN [it |-> [it EXCEPT !.ia = @ + 1,
                            !.editOffset = @ - linediff(m.additions[it.ia + 1])],
          value |-> DiffIterValue(m.additions[it.ia + 1], TRUE)]
    ELSE [it |-> [it EXCEPT !.id = @ + 1,
                            !.editOffset = @ + linediff(m.deletions[it.id + 1])],
          value |-> DiffIterValue(m.deletions[it.id + 1], FALSE)]

\* a variant of cmp that takes every two values for equal
cmpEqual(a, b, offsetA, offsetB) == 0

\* SyncedDiffIter.cmp
cmp(a, b, offsetA, offsetB) ==
    IF a.t = "null" /\ b.t = "null" THEN 0
    ELSE IF a.t = "null" THEN 1
    ELSE IF b.t = "null" THEN -1
    ELSE LET lineA == a.range.from.line + (IF a.isAddition THEN offsetA ELSE 0)
             lineB == b.range.from.line + (IF b.isAddition THEN offsetB ELSE 0)
         IN  IF lineA < lineB \/ a.range.from.ch < b.range.from.ch THEN -1
             ELSE IF lineA > lineB \/ a.range.from.ch > b.range.from.ch THEN 1
             ELSE 0

\* the SyncedDiffIter constructor: an iterator and its first value for
\* every model
SyncedDiffIter(models) ==
    [t |-> "synced",
     iterators |-> [n \in 1..Len(models) |-> DiffIterNext(DiffIter, models[n]).it],
     values |-> [n \in 1..Len(models) |-> DiffIterNext(DiffIter, models[n]).value],
     offsets |-> [n \in 1..Len(models) |-> 0],
     i |-> Undef, currentOffset |-> Num(0), done |-> FALSE]

\* the loop of SyncedDiffIter.next from j on: the index of the value that
\* comes first
RECURSIVE SyncedPick(_, _, _)
SyncedPick(s, i, j) ==
    IF j >= Len(s.values) THEN i
    ELSE SyncedPick(s,
                    IF 0 > cmp(s.values[j + 1], s.values[i + 1],
                               s.iterators[j + 1].editOffset,
                               s.iterators[i + 1].editOffset)
                    THEN j ELSE i,
                    j + 1)

\* SyncedDiffIter.next() once index i is picked: the object after the call
SyncedTake(s, i, models) ==
    IF s.values[i + 1].t = "null"
    THEN [s EXCEPT !.i = Num(i), !.currentOffset = Num(s.offsets[i + 1]),
                   !.offsets[i + 1] = s.iterators[i + 1].editOffset,
                   !.done = TRUE]
    ELSE [s EXCEPT !.i = Num(i), !.currentOffset = Num(s.offsets[i + 1]),
                   !.offsets[i + 1] = s.iterators[i + 1].editOffset,
                   !.values[i + 1] = DiffIterNext(s.iterators[i + 1], models[i + 1]).value,
                   !.iterators[i + 1] = DiffIterNext(s.iterators[i + 1], models[i + 1]).it]

\* the ranges a model can hold, by their first line and column and the
\* number of lines they span
ModelRanges ==
    {DiffRangePos(Pos(l, c), Pos(l + d, c + 1), TRUE, d = 1) :
       l \in 0..MaxLine - 1, c \in 0..1, d \in 0..1}

\* before(r1, r2): r1 starts before r2
StartsBefore(r1, r2) ==
    r1.from.line < r2.from.line \/ (r1.from.line = r2.from.line /\ r1.from.ch < r2.from.ch)

\* range lists sorted on the from position
RangeLists ==
    {rs \in SeqsUpTo(ModelRanges, MaxRanges) :
       \A n \in 1..(Len(rs) - 1) : StartsBefore(rs[n], rs[n + 1])}

StringDiffModels ==
    {[t |-> "model", additions |-> a, deletions |-> d] : a, d \in RangeLists}

InitSynced ==
    /\ options \in SeqsUpTo(StringDiffModels, MaxModels)
    /\ pc = "new"
    /\ base = None
    /\ diff = None
    /\ cursor = 0
    /\ st = None
    /\ out = None
    /\ pout = None
    /\ model = None
    /\ gc = None
    /\ chunks = None
    /\ mv = None

\* new SyncedDiffIter(models)
NewSyncedDiffIter ==
    /\ pc = "new"
    /\ st' = SyncedDiffIter(options)
    /\ pout' = <<>>
    /\ pc' = "iter"
    /\ UNCHANGED <<base, diff, cursor, out, model, gc, chunks, options, mv>>

\* next(): with no model values[0] is undefined, which is not null, and
\* iterators[0].editOffset raises; pout is what the caller was given so
\* far, each value with the index of currentModel()
SyncedNext ==
    /\ pc = "iter"
    /\ IF Len(st.values) = 0
       THEN /\ st' = [st EXCEPT !.i = Num(0), !.currentOffset = Undef]
            /\ out' = Throw("TypeError")
            /\ pc' = "thrown"
            /\ UNCHANGED pout
       ELSE /\ st' = SyncedTake(st, SyncedPick(st, 0, 1), options)
            /\ out' = st.values[SyncedPick(st, 0, 1) + 1]
            /\ pout' = IF st.values[SyncedPick(st, 0, 1) + 1].t = "null" THEN pout
                       ELSE Append(pout, [value |-> st.values[SyncedPick(st, 0, 1) + 1],
                                          model |-> SyncedPick(st, 0, 1)])
            /\ UNCHANGED pc
    /\ UNCHANGED <<base, diff, cursor, model, gc, chunks, options, mv>>

NextSynced ==
    \/ NewSyncedDiffIter
    \/ SyncedNext

SpecSynced == InitSynced /\ [][NextSynced]_vars

\* the caller goes on calling next()
SpecSyncedCalls == SpecSynced /\ WF_vars(NextSynced)

-----------------------------------------------------------------------------
(* diffutil.ts: raw2Pos called on a text and a list of raw ranges of it, *)
(* empty ranges included                                                *)

\* the raw ranges of a text
RawRanges(text) ==
    {DiffRangeRaw(from, length) :
       from \in 0..Len(text), length \in 0..Len(text)}
    \cap {r \in [from : 0..Len(text), to : 0..Len(text)] : r.from <= r.to}

InitRaw ==
    /\ base \in TextBases
    /\ out \in SeqsUpTo(RawRanges(base.s), MaxRaws)
    /\ pc = "start"
    /\ diff = None
    /\ cursor = 0
    /\ st = None
    /\ pout = None
    /\ model = None
    /\ gc = None
    /\ chunks = None
    /\ options = None
    /\ mv = None

\* raw2Pos(raws, text)
CallRaw2Pos ==
    /\ pc = "start"
    /\ pout' = raw2Pos(out, base.s)
    /\ pc' = "positions"
    /\ UNCHANGED <<base, diff, cursor, st, out, model, gc, chunks, options, mv>>

NextRaw == CallRaw2Pos

SpecRaw == InitRaw /\ [][NextRaw]_vars

-----------------------------------------------------------------------------
(* Reading JSON text back (JSON.parse), for the statements about remote *)

ParseFail == [ok |-> FALSE]
ParseOk(v, p) == [ok |-> TRUE, v |-> v, p |-> p]

\* the first position at or after p that holds no white space
RECURSIVE SkipWs(_, _)
SkipWs(s, p) ==
    IF p <= Len(s) /\ s[p] \in {" ", "\n", "\t"} THEN SkipWs(s, p + 1) ELSE p

DigitValue(c) == CHOOSE d \in 0..9 : Digits[d + 1] = c

\* the characters of a string literal from p on, up to the closing quote
RECURSIVE ParseChars(_, _, _)
ParseChars(s, p, acc) ==
    IF p > Len(s) THEN ParseFail
    ELSE IF s[p] = "\"" THEN ParseOk(Str(acc), p + 1)
    ELSE IF s[p] \in {"\n", "\t", "BEL"} THEN ParseFail
    ELSE IF s[p] # "\\" THEN ParseChars(s, p + 1, Append(acc, s[p]))
    ELSE IF p + 1 > Len(s) THEN ParseFail
    ELSE IF s[p + 1] \in {"\"", "\\", "/"}
         THEN ParseChars(s, p + 2, Append(acc, s[p + 1]))
    ELSE IF s[p + 1] = "n" THEN ParseChars(s, p + 2, Append(acc, "\n"))
    ELSE IF s[p + 1] = "t" THEN ParseChars(s, p + 2, Append(acc, "\t"))
    ELSE IF s[p + 1] = "u" /\ p + 5 <= Len(s)
            /\ SubSeq(s, p + 2, p + 5) = <<"0", "0", "0", "7">>
         THEN ParseChars(s, p + 6, Append(acc, "BEL"))
    ELSE ParseFail

\* the digits from p on
RECURSIVE ParseDigits(_, _, _)
ParseDigits(s, p, acc) ==
    IF p <= Len(s) /\ IsDigit(s[p])
    THEN ParseDigits(s, p + 1, acc * 10 + DigitValue(s[p]))
    ELSE ParseOk(Num(acc), p)

ParseNumber(s, p) ==
    IF s[p] = "-"
    THEN IF p + 1 <= Len(s) /\ IsDigit(s[p + 1])
         THEN ParseOk(Num(0 - ParseDigits(s, p + 1, 0).v.n), ParseDigits(s, p + 1, 0).p)
         ELSE ParseFail
    ELSE ParseDigits(s, p, 0)

RECURSIVE ParseValue(_, _)
RECURSIVE ParseElements(_, _, _)
RECURSIVE ParseMembers(_, _, _)

\* after an element r of an array: a comma and more elements, or the bracket
ParseAfterElement(s, r, acc) ==
    IF ~r.ok THEN ParseFail
    ELSE IF SkipWs(s, r.p) > Len(s) THEN ParseFail
    ELSE IF s[SkipWs(s, r.p)] = "]"
         THEN ParseOk(Arr(Append(acc, r.v)), SkipWs(s, r.p) + 1)
    ELSE IF s[SkipWs(s, r.p)] = ","
         THEN ParseElements(s, SkipWs(s, r.p) + 1, Append(acc, r.v))
    ELSE ParseFail

ParseElements(s, p, acc) == ParseAfterElement(s, ParseValue(s, p), acc)

\* after the value r of the member named k: a comma and more, or the brace
ParseAfterMember(s, k, r, acc) ==
    IF ~r.ok THEN ParseFail
    ELSE IF SkipWs(s, r.p) > Len(s) THEN ParseFail
    ELSE IF s[SkipWs(s, r.p)] = "}"
         THEN ParseOk(SetKey(acc, k, r.v), SkipWs(s, r.p) + 1)
    ELSE IF s[SkipWs(s, r.p)] = ","
         THEN ParseMembers(s, SkipWs(s, r.p) + 1, SetKey(acc, k, r.v))
    ELSE ParseFail

\* after the name k of a member: the colon and the value
ParseAfterName(s, k, acc) ==
    IF ~k.ok THEN ParseFail
    ELSE IF SkipWs(s, k.p) > Len(s) THEN ParseFail
    ELSE IF s[SkipWs(s, k.p)] # ":" THEN ParseFail
    ELSE ParseAfterMember(s, k.v.s, ParseValue(s, SkipWs(s, k.p) + 1), acc)

ParseMembers(s, p, acc) ==
    IF SkipWs(s, p) > Len(s) THEN ParseFail
    ELSE IF s[SkipWs(s, p)] # "\"" THEN ParseFail
    ELSE ParseAfterName(s, ParseChars(s, SkipWs(s, p) + 1, <<>>), acc)

\* the value at position q, q being past the white space
ParseAt(s, q) ==
    IF q > Len(s) THEN ParseFail
    ELSE IF s[q] = "\"" THEN ParseChars(s, q + 1, <<>>)
    ELSE IF s[q] = "-" \/ IsDigit(s[q]) THEN ParseNumber(s, q)
    ELSE IF s[q] = "["
         THEN IF SkipWs(s, q + 1) <= Len(s) /\ s[SkipWs(s, q + 1)] = "]"
              THEN ParseOk(Arr(<<>>), SkipWs(s, q + 1) + 1)
              ELSE ParseElements(s, q + 1, <<>>)
    ELSE IF s[q] = "{"
         THEN IF SkipWs(s, q + 1) <= Len(s) /\ s[SkipWs(s, q + 1)] = "}"
              THEN ParseOk(Obj(<<>>), SkipWs(s, q + 1) + 1)
              ELSE ParseMembers(s, q + 1, Obj(<<>>))
    ELSE IF q + 3 <= Len(s) /\ SubSeq(s, q, q + 3) = <<"n", "u", "l", "l">>
         THEN ParseOk(Null, q + 4)
    ELSE ParseFail

ParseValue(s, p) == ParseAt(s, SkipWs(s, p))

\* the whole text is one JSON value, or the parse raises
ParseWhole(s, r) ==
    IF r.ok /\ SkipWs(s, r.p) > Len(s) THEN r.v ELSE Throw("SyntaxError")

JSONParse(s) == ParseWhole(s, ParseValue(s, 1))

\* a value up to structural equality: the properties of an object sorted
\* by key, those whose value is undefined left out
RECURSIVE Canon(_)
CanonEntries(o, keys) ==
    [n \in 1..Len(keys) |-> KV(keys[n], Canon(GetKey(o, keys[n])))]

Canon(v) ==
    IF v.t = "arr" THEN Arr([n \in 1..Len(v.a) |-> Canon(v.a[n])])
    ELSE IF v.t = "obj" THEN Obj(CanonEntries(v, PresentKeys(v, SortKeys(objectKeys(v)))))
    ELSE v

StructurallyEqual(v, w) == Canon(v) = Canon(w)

-----------------------------------------------------------------------------
(* Properties *)

\* patchStringified has returned (a result or an exception)
Returned == pc \in {"returned", "patchSequence", "patchObject", "done"}

\* the diff is one valid entry with the given op
SingleEntry(op) == Len(diff) = 1 /\ diff[1].op = op /\ ValidDiff(base, diff)

\* C5 String insertion: for a string base s and the diff [addrange(k, v)]
\* with 0 <= k <= length(s), patchStringified at level 0 returns
\* remote = s[0..k) + v + s[k..), additions = [{from: k, to: k + length(v)}]
\* and no deletions.
C5_StringInsertion ==
    (Returned /\ base.t = "str" /\ SingleEntry(SEQINSERT)) =>
        out = [t |-> "result",
               remote |-> SubSeq(base.s, 1, diff[1].key.n)
                          \o diff[1].valuelist.s
                          \o SubSeq(base.s, diff[1].key.n + 1, Len(base.s)),
               additions |-> <<[from |-> diff[1].key.n,
                                to |-> diff[1].key.n + Len(diff[1].valuelist.s)]>>,
               deletions |-> <<>>]

\* "xy" inserted in the middle of "ab"
C5_Witness ==
    /\ pc = "returned"
    /\ base = Str(<<"a", "b">>)
    /\ diff = <<AddRange(Num(1), Str(<<"x", "y">>))>>
    /\ out.remote = <<"a", "x", "y", "b">>
    /\ out.additions = <<[from |-> 1, to |-> 3]>>

\* C6 String deletion: for a string base s and the diff [removerange(k, n)]
\* with k + n <= length(s), patchStringified at level 0 returns
\* remote = s[0..k) + s[k+n..), deletions = [{from: k, to: k + n}] in base
\* coordinates, and no additions.
C6_StringDeletion ==
    (Returned /\ base.t = "str" /\ SingleEntry(SEQDELETE)) =>
        out = [t |-> "result",
               remote |-> SubSeq(base.s, 1, diff[1].key.n)
                          \o SubSeq(base.s, diff[1].key.n + diff[1].length + 1,
                                    Len(base.s)),
               additions |-> <<>>,
               deletions |-> <<[from |-> diff[1].key.n,
                                to |-> diff[1].key.n + diff[1].length]>>]

\* the middle character of "aba" deleted
C6_Witness ==
    /\ pc = "returned"
    /\ base = Str(<<"a", "b", "a">>)
    /\ diff = <<RemoveRange(Num(1), 1)>>
    /\ out.remote = <<"a", "a">>
    /\ out.deletions = <<[from |-> 1, to |-> 2]>>

\* the text the deletions refer to: base itself when it is a string,
\* stringify(base) for an array or object
BaseText == IF base.t = "str" THEN base.s ELSE stringify(base, 0, TRUE)

\* the value the remote text stands for: the text itself for a string
\* base, the parsed JSON for an array or object
RemoteValue == IF base.t = "str" THEN Str(out.remote) ELSE JSONParse(out.remote)

\* C1 Round-trip: for every base (string, array or object) and every diff
\* valid against it, patch(base, diff) and the value read back from
\* patchStringified(base, diff).remote are structurally equal.
C1_RoundTrip ==
    (pc = "done" /\ ValidDiff(base, diff)) =>
        /\ ~IsThrow(pout)
        /\ ~IsThrow(out)
        /\ StructurallyEqual(pout, RemoteValue)

InBounds(r, text) == 0 <= r.from /\ r.from <= r.to /\ r.to <= Len(text)

\* C2 Range validity: for every base and every diff valid against it, every
\* addition of patchStringified satisfies 0 <= from <= to <= length(remote)
\* and every deletion satisfies 0 <= from <= to <= length of the base text.
C2_RangeValidity ==
    (Returned /\ ValidDiff(base, diff) /\ out.t = "result") =>
        /\ \A n \in 1..Len(out.additions) : InBounds(out.additions[n], out.remote)
        /\ \A n \in 1..Len(out.deletions) : InBounds(out.deletions[n], BaseText)

Ascending(ranges) ==
    \A n \in 1..(Len(ranges) - 1) :
        /\ ranges[n].from <= ranges[n + 1].from
        /\ ranges[n].to <= ranges[n + 1].from

\* C3 Sortedness: for every base and every diff valid against it, nested
\* patch entries included, the additions and the deletions of
\* patchStringified are each sorted ascending by from and no two ranges of
\* one list overlap.
C3_Sortedness ==
    (Returned /\ ValidDiff(base, diff) /\ out.t = "result") =>
        Ascending(out.additions) /\ Ascending(out.deletions)

\* the line of element n (from 0) of array a in its one-element-per-line
\* rendering: the indent, the element, and the comma of every line but the
\* last
ElementText(a, n) ==
    JSON_INDENT \o stableStringify(a[n + 1], 1)
    \o (IF n + 1 < Len(a) THEN <<",">> ELSE <<>>)

\* the offset of the first character of that line: "[" and a newline come
\* first, and every line ends with a newline
RECURSIVE LineStart(_, _)
LineStart(a, n) ==
    IF n = 0 THEN 2 ELSE LineStart(a, n - 1) + Len(ElementText(a, n - 1)) + 1

\* the offset just past the newline that ends that line
LineEnd(a, n) == LineStart(a, n) + Len(ElementText(a, n)) + 1

\* the array after the one entry of diff
Inserted ==
    SubSeq(base.a, 1, diff[1].key.n) \o diff[1].valuelist.a
    \o SubSeq(base.a, diff[1].key.n + 1, Len(base.a))

Deleted ==
    SubSeq(base.a, 1, diff[1].key.n)
    \o SubSeq(base.a, diff[1].key.n + diff[1].length + 1, Len(base.a))

\* C7 List insertion: for an array base and the diff [addrange(k, v)] with
\* 0 <= k <= length(base), patchStringified returns as remote the
\* 4-space-indented, one-element-per-line rendering of the patched array,
\* one addition that starts at the first character (indent included) of the
\* first inserted element's line and ends just past the newline that ends
\* the last inserted element's line, and no deletions.
C7_ListInsertion ==
    (Returned /\ base.t = "arr" /\ SingleEntry(SEQINSERT)) =>
        out = [t |-> "result",
               remote |-> stableStringify(Arr(Inserted), 0),
               additions |->
                   <<[from |-> LineStart(Inserted, diff[1].key.n),
                      to |-> LineEnd(Inserted, diff[1].key.n
                                               + Len(diff[1].valuelist.a) - 1)]>>,
               deletions |-> <<>>]

\* C8 List deletion: for an array base and the diff [removerange(k, n)]
\* with k + n <= length(base), patchStringified returns as remote the
\* one-element-per-line rendering of the array without the n deleted
\* elements, no additions, and one deletion that, in the rendering of base,
\* starts at the first character (indent included) of the line of element k
\* and ends just past the newline that ends the line of element k+n-1.
C8_ListDeletion ==
    (Returned /\ base.t = "arr" /\ SingleEntry(SEQDELETE)) =>
        out = [t |-> "result",
               remote |-> stableStringify(Arr(Deleted), 0),
               additions |-> <<>>,
               deletions |->
                   <<[from |-> LineStart(base.a, diff[1].key.n),
                      to |-> LineEnd(base.a, diff[1].key.n + diff[1].length - 1)]>>]

\* the ops of a diff applied to a value of each type
OpsOf(b) ==
    CASE b.t = "str" -> {SEQINSERT, SEQDELETE}
      [] b.t = "arr" -> {SEQINSERT, SEQDELETE, PATCH}
      [] b.t = "obj" -> {ADD, REMOVE, REPLACE, PATCH}
      [] OTHER -> {}

\* the child of b an entry's key names
Child(b, key) == IF b.t = "obj" THEN GetKey(b, key.s) ELSE At(b, key.n)

\* diff d holds, at some nesting level, an entry whose op is unknown or is
\* not an op of the type of the value it is applied to
RECURSIVE HasBadOp(_, _)
HasBadOp(b, d) ==
    \E n \in 1..Len(d) :
        \/ d[n].op \notin OpsOf(b)
        \/ d[n].op = PATCH /\ HasBadOp(Child(b, d[n].key), d[n].diff)

\* C9 Malformed diff is fatal: patch and patchStringified raise an error and
\* return no result whenever the diff holds, at any nesting level, an entry
\* whose op is unknown or not valid for the type of the value it is applied
\* to; for string, array and object bases alike.
C9_MalformedIsFatal ==
    HasBadOp(base, diff) =>
        /\ Returned => IsThrow(out)
        /\ pc = "done" => IsThrow(pout)

\* C10 Duplicate Add is a failure: applying to an object base a diff with
\* an add entry whose key the base has fails; it does not complete with a
\* result.
C10_DuplicateAddFails ==
    (base.t = "obj"
     /\ \E n \in 1..Len(diff) : diff[n].op = ADD /\ HasKey(base, diff[n].key.s)) =>
        /\ Returned => IsThrow(out)
        /\ pc = "done" => IsThrow(pout)

\* the chunks whose remote-view span [origFrom, origTo) holds every line
\* of the range
OrigChunksOf(range) ==
    {n \in 1..Len(chunks) :
        chunks[n].origFrom <= range.from.line /\ range.to.line < chunks[n].origTo}

\* the chunks whose base-view span [editFrom, editTo) holds every line of
\* the range
EditChunksOf(range) ==
    {n \in 1..Len(chunks) :
        chunks[n].editFrom <= range.from.line /\ range.to.line < chunks[n].editTo}

UntouchedKeys ==
    {objectKeys(base)[i] : i \in 1..Len(objectKeys(base))}
    \ {diff[i].key.s : i \in 1..Len(diff)}

\* the keys that the remove entries of the diff name
RemovedKeys == {diff[i].key.s : i \in {j \in 1..Len(diff) : diff[j].op = REMOVE}}

\* C11 Untouched keys survive: for an object base and a valid diff of
\* add/remove/replace/patch entries, patch returns an object in which every
\* key of the base that no entry names is present with a value structurally
\* equal to its value in the base (null included), and the only keys of the
\* base that are missing are those named by remove entries.
C11_UntouchedKeysSurvive ==
    (pc = "done" /\ base.t = "obj" /\ ValidDiff(base, diff)) =>
        /\ ~IsThrow(pout)
        /\ \A key \in UntouchedKeys :
             /\ HasKey(pout, key)
             /\ StructurallyEqual(GetKey(pout, key), GetKey(base, key))
        /\ \A i \in 1..Len(objectKeys(base)) :
             HasKey(pout, objectKeys(base)[i])
             \/ objectKeys(base)[i] \in RemovedKeys

\* the diff of a string base is a sequence of pairs, each a removerange
\* and an addrange at the same key, in either order
IsPairs(d) ==
    /\ Len(d) >= 2
    /\ Len(d) % 2 = 0
    /\ \A i \in 1..Len(d) :
         i % 2 = 1 => /\ d[i].key = d[i + 1].key
                      /\ {d[i].op, d[i + 1].op} = {SEQINSERT, SEQDELETE}

\* the removerange and the addrange of the pair that starts at entry i
RemovalOf(d, i) == IF d[i].op = SEQDELETE THEN d[i] ELSE d[i + 1]
InsertionOf(d, i) == IF d[i].op = SEQINSERT THEN d[i] ELSE d[i + 1]

\* s with the characters [k, k+n) of every pair replaced by the pair's
\* valuelist; pos is the index in s after the pairs already applied
RECURSIVE Composed(_, _, _)
Composed(s, d, pos) ==
    IF d = <<>> THEN Slice(s, pos, Len(s))
    ELSE Slice(s, pos, d[1].key.n) \o InsertionOf(d, 1).valuelist.s
         \o Composed(s, Tail(Tail(d)), d[1].key.n + RemovalOf(d, 1).length)

\* how much longer the remote is than the base before the pair at entry i
RECURSIVE Growth(_, _)
Growth(d, i) ==
    IF i <= 1 THEN 0
    ELSE Growth(d, i - 2) + Len(InsertionOf(d, i - 2).valuelist.s)
         - RemovalOf(d, i - 2).length

Reorderings(d) ==
    {[i \in 1..Len(d) |-> d[f[i]]] : f \in Permutations(1..Len(d))}

\* the keys of the base and of the diff that the remote shows: all but
\* those a remove entry names
ShownKeys ==
    ({objectKeys(base)[i] : i \in 1..Len(objectKeys(base))}
     \cup {diff[i].key.s : i \in 1..Len(diff)})
    \ RemovedKeys

\* where the line of a top-level key starts in the remote, or -1
KeyLineAt(key) == IndexOf(out.remote, <<"\n">> \o makeKeyString(key, 1), 0)

\* C13 Sorted key order independent of diff order: for an object base and
\* a valid diff over distinct keys, the remote of patchStringified shows
\* every key that is not removed, in ascending key order, and remote,
\* additions and deletions are the same for every order of the diff's
\* entries.
C13_SortedKeyOrder ==
    (Returned /\ base.t = "obj" /\ ValidDiff(base, diff)) =>
        /\ ~IsThrow(out)
        /\ \A key \in ShownKeys : KeyLineAt(key) >= 0
        /\ \A k1, k2 \in ShownKeys :
             StrLess(k1, k2) => KeyLineAt(k1) < KeyLineAt(k2)
        /\ \A d \in Reorderings(diff) : patchStringified(base, d, 0) = out

\* a base whose keys were inserted in descending order, and a diff of two
\* entries whose keys descend, one of them a key the base does not have
C13_Witness ==
    /\ Returned
    /\ base.t = "obj"
    /\ ValidDiff(base, diff)
    /\ Len(base.o) = 2
    /\ StrLess(base.o[2].k, base.o[1].k)
    /\ Len(diff) = 2
    /\ diff[1].op = ADD
    /\ diff[2].op = REPLACE
    /\ StrLess(diff[2].key.s, diff[1].key.s)
    /\ ~IsThrow(out)
    /\ Cardinality(ShownKeys) = 3

\* how many whole lines a text holds: one for each newline, and one more
\* for characters after the last newline
LineCount(text) ==
    Cardinality({i \in 1..Len(text) : text[i] = "\n"})
    + (IF text # <<>> /\ text[Len(text)] # "\n" THEN 1 ELSE 0)

\* the diff is one addrange at the end of the base that adds whole lines:
\* lines ended by a newline after a base that is empty or ends with one,
\* a newline and a line after a base that does not
AppendsLines ==
    /\ Len(diff) = 1
    /\ diff[1].op = SEQINSERT
    /\ diff[1].key.n = Len(base.s)
    /\ LET v == diff[1].valuelist.s
       IN  IF base.s = <<>> \/ base.s[Len(base.s)] = "\n"
           THEN v[Len(v)] = "\n"
           ELSE v[1] = "\n" /\ v[Len(v)] # "\n"

\* C14 Appended lines: when the remote is the base followed by added
\* trailing lines, getChunks (on the raw2Pos of the one addition range)
\* returns exactly one chunk, non-empty on the remote side (origFrom <
\* origTo) and empty on the base side (editFrom = editTo), at the line of
\* the base where the lines were appended.
C14_AppendedLines ==
    (pc = "chunked" /\ AppendsLines) =>
        /\ Len(chunks) = 1
        /\ chunks[1].origFrom < chunks[1].origTo
        /\ chunks[1].editFrom = chunks[1].editTo
        /\ chunks[1].editFrom = LineCount(base.s)

WellFormed(c) == c.editFrom <= c.editTo /\ c.origFrom <= c.origTo

\* C15 Chunk well-formedness: in every iteration of getChunks the chunk
\* being built and the chunks already pushed, and at the end the chunks
\* returned, have editFrom <= editTo and origFrom <= origTo.
C15_ChunkWellFormed ==
    /\ pc = "getChunks" =>
         /\ gc.current # None => WellFormed(gc.current)
         /\ \A i \in 1..Len(gc.chunks) : WellFormed(gc.chunks[i])
    /\ pc = "chunked" => \A i \in 1..Len(chunks) : WellFormed(chunks[i])

\* an addition and a deletion that one chunk takes, the chunk opened by
\* the first and extended by the second, one of the two ranges without the
\* chunkStartLine hint
C15_Witness ==
    /\ pc = "chunked"
    /\ Len(model.additions) = 1
    /\ Len(model.deletions) = 1
    /\ Len(chunks) = 1
    /\ ~model.additions[1].chunkStartLine \/ ~model.deletions[1].chunkStartLine
    /\ model.additions[1].endsOnNewline # model.deletions[1].endsOnNewline
    /\ WellFormed(chunks[1])

BaseCellModels == SelectSeq(model.cells, LAMBDA m : m.base # Null)
AddedCellModels == SelectSeq(model.cells, LAMBDA m : m.base = Null)

\* the remote source the model of base cell i (counted from 0) must show:
\* none when a removerange covers it, the patched source when a patch
\* entry changes its source, else the source of the base
ExpectedRemote(i) ==
    IF \E j \in 1..Len(cells_diff) :
         /\ cells_diff[j].op = SEQDELETE
         /\ cells_diff[j].key.n <= i
         /\ i < cells_diff[j].key.n + cells_diff[j].length
    THEN Null
    ELSE IF \E j \in 1..Len(cells_diff) :
              /\ cells_diff[j].op = PATCH
              /\ cells_diff[j].key.n = i
              /\ cells_diff[j].diff # <<>>
    THEN Str(<<"x">> \o GetKey(base_cells[i + 1], SourceKey).s)
    ELSE GetKey(base_cells[i + 1], SourceKey)

\* the cells of the valuelists of the addrange entries before entry j
AddedBefore(j) ==
    Concat([i \in 1..(j - 1) |->
              IF cells_diff[i].op = SEQINSERT THEN cells_diff[i].valuelist.a
              ELSE <<>>])

\* every base cell has exactly one model, in base order, unchanged,
\* deleted or patched as the diff says, and every cell of every addrange
\* valuelist has exactly one model, in diff order
CellsComplete ==
    /\ Len(BaseCellModels) = Len(base_cells)
    /\ \A i \in 1..Len(base_cells) :
         /\ BaseCellModels[i].base = GetKey(base_cells[i], SourceKey)
         /\ BaseCellModels[i].remote = ExpectedRemote(i - 1)
    /\ AddedCellModels =
         [i \in 1..Len(AddedBefore(Len(cells_diff) + 1)) |->
            [t |-> "cell", base |-> Null,
             remote |-> GetKey(AddedBefore(Len(cells_diff) + 1)[i], SourceKey)]]

\* where in model.cells the n-th model of an added cell is
AddedAt(n) ==
    CHOOSE p \in 1..Len(model.cells) :
      /\ model.cells[p].base = Null
      /\ Cardinality({q \in 1..p : model.cells[q].base = Null}) = n

\* how many models of base cells come before position p
BaseBefore(p) == Cardinality({q \in 1..(p - 1) : model.cells[q].base # Null})

\* the models of the cells of addrange entry j have before them the
\* models of exactly the first n base cells
PlacedAfter(j, n) ==
    \A r \in 1..Len(cells_diff[j].valuelist.a) :
      BaseBefore(AddedAt(Len(AddedBefore(j)) + r)) = n

\* how many base cells the entry that comes before entry j with j's key
\* removes or patches, or 0
ConsumedAtSameKey(j) ==
    IF \E i \in 1..(j - 1) : cells_diff[i].key = cells_diff[j].key
    THEN Span(cells_diff[CHOOSE i \in 1..(j - 1) :
                           cells_diff[i].key = cells_diff[j].key])
    ELSE 0

\* C17 as stated: the cell list is complete and ordered, and the cells of
\* every addrange come immediately before the model of the base cell at
\* the addrange's key (after the models of exactly key base cells).
C17_CellsBeforeKey ==
    pc = "built" =>
        /\ CellsComplete
        /\ \A j \in 1..Len(cells_diff) :
             cells_diff[j].op = SEQINSERT => PlacedAfter(j, cells_diff[j].key.n)

\* C17 Notebook cell list is complete and ordered: for a base notebook and
\* a valid cells diff sorted by key, cells holds every base cell exactly
\* once in base order (unchanged, deleted or patched) and every cell of
\* every addrange exactly once, placed after the models of the base cells
\* below the addrange's key and of the base cells that an entry earlier in
\* the diff removes or patches at that key; with no cells diff every base
\* cell is unchanged.
C17_CellsInDiffOrder ==
    pc = "built" =>
        /\ CellsComplete
        /\ \A j \in 1..Len(cells_diff) :
             cells_diff[j].op = SEQINSERT =>
               PlacedAfter(j, cells_diff[j].key.n + ConsumedAtSameKey(j))

\* a removerange and, after it, an addrange of two cells at the same key
\* in the middle of three base cells
C17_Witness ==
    /\ pc = "built"
    /\ Len(base_cells) = 3
    /\ Len(cells_diff) = 2
    /\ cells_diff[1].op = SEQDELETE
    /\ cells_diff[2].op = SEQINSERT
    /\ cells_diff[1].key = Num(1)
    /\ cells_diff[2].key = Num(1)
    /\ Len(cells_diff[2].valuelist.a) = 2
    /\ Len(model.cells) = 5

\* entry e of the diff patches a string that the base holds
PatchesString(e) == e.op = PATCH /\ Child(base, e.key).t = "str"

\* every addition range of the nested result pd delimits in pd.remote the
\* JSON-escaped valuelist of the entry of d it belongs to
DelimitsEscaped(pd, d) ==
    /\ ~IsThrow(pd)
    /\ Len(pd.additions) = Len(d)
    /\ \A n \in 1..Len(d) :
         Slice(pd.remote, pd.additions[n].from, pd.additions[n].to)
           = EscapeChars(d[n].valuelist.s)

\* C18 Nested string ranges follow JSON escaping: when a string held by an
\* array or object base is patched (at level 1) with addrange entries, each
\* addition range patchString returns delimits, in the quoted and escaped
\* remote, exactly the JSON-escaped form of the inserted valuelist.
C18_NestedStringRanges ==
    (Returned /\ base.t \in {"arr", "obj"} /\ ValidDiff(base, diff)) =>
        \A i \in 1..Len(diff) :
          (/\ PatchesString(diff[i])
           /\ \A n \in 1..Len(diff[i].diff) : diff[i].diff[n].op = SEQINSERT) =>
             DelimitsEscaped(patchString(Child(base, diff[i].key), diff[i].diff, 1),
                             diff[i].diff)

\* the escape sequences of a JSON text, left to right: the index of each
\* and how much longer it is than the character it stands for
RECURSIVE EscapesIn(_, _)
EscapesIn(text, i) ==
    IF i + 2 > Len(text) THEN <<>>
    ELSE IF text[i + 1] # "\\" THEN EscapesIn(text, i + 1)
    ELSE IF text[i + 2] = "u"
         THEN <<[idx |-> i, delta |-> 5]>> \o EscapesIn(text, i + 6)
    ELSE <<[idx |-> i, delta |-> 1]>> \o EscapesIn(text, i + 2)

\* boundary b moved by the delta of every escape it lies strictly after,
\* one escape after the other
RECURSIVE Shifted(_, _)
Shifted(b, found) ==
    IF found = <<>> THEN b
    ELSE Shifted(IF b > Head(found).idx THEN b + Head(found).delta ELSE b,
                 Tail(found))

\* adjustRangesByJSONEscapes moved every boundary of ranges by the deltas
\* of the escapes of text before it
AdjustedByDelta(text, ranges) ==
    adjustRangesByJSONEscapes(text, ranges) =
      [n \in 1..Len(ranges) |->
         [from |-> Shifted(ranges[n].from, EscapesIn(text, 0)),
          to |-> Shifted(ranges[n].to, EscapesIn(text, 0))]]

\* C19 Escape adjustment amount: adjustRangesByJSONEscapes, as patchString
\* calls it at level 1 on the quoted remote and the addition ranges, moves
\* every boundary that lies strictly after the index of an escape sequence
\* by that escape's length delta (1 for a two-character escape, 5 for a
\* \uXXXX escape), cumulatively, and leaves the other boundaries alone.
C19_EscapeAdjustment ==
    (Returned /\ base.t \in {"arr", "obj"} /\ ValidDiff(base, diff)) =>
        \A i \in 1..Len(diff) :
          PatchesString(diff[i]) =>
            AdjustedByDelta(
              patchString(Child(base, diff[i].key), diff[i].diff, 1).remote,
              OffsetAll(Len(JSON_INDENT) + 1,
                        patchString(Child(base, diff[i].key), diff[i].diff, 0).additions))

\* how many of the first n entries of d have the given op
CountOp(d, n, op) == Cardinality({j \in 1..n : d[j].op = op})

\* the text a range delimits
Delimited(text, r) == Slice(text, r.from, r.to)

\* the ranges of the nested result pd are found in the outer list from
\* position skipped + 1 on, and delimit in outerText what they delimit in
\* nestedText
SameText(outer, skipped, outerText, nested, nestedText) ==
    /\ Len(outer) >= skipped + Len(nested)
    /\ \A n \in 1..Len(nested) :
         Delimited(outerText, outer[skipped + n]) = Delimited(nestedText, nested[n])

\* entry i of the diff patches an element of the array base and only
\* insertions and removals come before it
PatchAfterRuns(i) ==
    /\ diff[i].op = PATCH
    /\ \A j \in 1..(i - 1) : diff[j].op \in {SEQINSERT, SEQDELETE}

NestedTranslated(i, pd, child) ==
    ~IsThrow(pd) =>
      /\ ~IsThrow(out)
      /\ SameText(out.additions, CountOp(diff, i - 1, SEQINSERT), out.remote,
                  pd.additions, pd.remote)
      /\ SameText(out.deletions, CountOp(diff, i - 1, SEQDELETE),
                  stringify(base, 0, TRUE),
                  pd.deletions, stringify(child, 1, TRUE))

\* C20 Nested range translation in arrays: when the diff of an array holds
\* a patch entry, possibly after addrange and removerange entries, every
\* addition range of the nested result delimits in the outer remote the
\* text it delimits in the nested remote, and every deletion range of the
\* nested result delimits in the rendering of the base array the text it
\* delimits in the rendering of the patched element.
C20_NestedRangesInArrays ==
    (pc = "returned" /\ base.t = "arr" /\ ValidDiff(base, diff)) =>
        \A i \in 1..Len(diff) :
          PatchAfterRuns(i) =>
            NestedTranslated(i,
                             patchStringified(Child(base, diff[i].key), diff[i].diff, 1),
                             Child(base, diff[i].key))

\* the diff names key with a remove or replace entry
IsDeletedKey(key) ==
    \E i \in 1..Len(diff) : diff[i].key.s = key /\ diff[i].op \in {REMOVE, REPLACE}

\* the removed and replaced keys, in the order the object is rendered
DeletedKeys == SelectSeq(getAllKeys(base, OpKeys(diff)), IsDeletedKey)

\* the text of key's entry in the rendering of the base, without the comma
EntryText(key) == makeKeyString(key, 1) \o stringify(GetKey(base, key), 1, FALSE)

\* range r starts at the first character of a line of text and the text
\* from there on begins with entry
CoversEntry(text, r, entry) ==
    /\ r.from >= 1
    /\ text[r.from] = "\n"
    /\ r.to - r.from >= Len(entry)
    /\ Slice(text, r.from, r.from + Len(entry)) = entry

\* C21 Object deletion ranges are in base coordinates: for an object base
\* and a diff of remove and replace entries, every deletion range starts,
\* in stringify(base), at the first character of the line of the removed
\* key's entry and covers that entry, also after an earlier removed or
\* unchanged key.
C21_ObjectDeletionRanges ==
    (/\ pc = "returned" /\ base.t = "obj" /\ ValidDiff(base, diff)
     /\ \A i \in 1..Len(diff) : diff[i].op \in {REMOVE, REPLACE}) =>
        /\ ~IsThrow(out)
        /\ Len(out.deletions) = Len(DeletedKeys)
        /\ \A n \in 1..Len(DeletedKeys) :
             CoversEntry(stringify(base, 0, TRUE), out.deletions[n],
                         EntryText(DeletedKeys[n]))

\* an iteration of one of the three sequence-walking loops that ended
\* without an exception
SequenceWalk ==
    /\ pc \in {"patchSequence", "patchString", "patchStringifiedList"}
    /\ pc' = pc
    /\ cursor' = cursor + 1

\* the iteration for entry e, over loop states s and t: take does not
\* decrease and is the larger of the old take and key + skip
TakeAdvances(s, t, e) ==
    /\ t.take >= s.take
    /\ t.take = (IF s.take >= e.key.n + t.skip THEN s.take ELSE e.key.n + t.skip)

\* the base elements the iteration copies or renders, those from take up
\* to the key and the patched or removed one, lie at or after the old take
\* and before the new one: none was taken by an earlier iteration
TakesOnce(s, t, e) ==
    /\ e.key.n > s.take => t.take >= e.key.n
    /\ e.op \in {PATCH, SEQDELETE} => (e.key.n >= s.take /\ t.take > e.key.n)

\* C22 The take cursor never decreases: in the loops of patchSequence,
\* patchString and patchStringifiedList the take after an entry is at
\* least the take before it and equals max(previous take, key + skip), and
\* for a valid diff no base element is copied or rendered twice.
C22_TakeNeverDecreases ==
    [][SequenceWalk =>
         /\ TakeAdvances(st, st', diff[cursor])
         /\ ValidDiff(base, diff) => TakesOnce(st, st', diff[cursor])]_vars

\* the second entry of a pair on one index is applied and take stays past
\* its key
C22_Witness ==
    /\ pc \in {"patchSequence", "patchString", "patchStringifiedList"}
    /\ cursor = 3
    /\ st.take > diff[2].key.n + st.skip

\* the indices (from 0) of the newlines of text strictly before index i
NewlinesBefore(text, i) == {k \in 0..(i - 1) : k < Len(text) /\ text[k + 1] = "\n"}

\* the index following the last newline strictly before index i, 0 on the
\* first line
LineStartBefore(text, i) ==
    IF NewlinesBefore(text, i) = {} THEN 0
    ELSE (CHOOSE k \in NewlinesBefore(text, i) :
            \A j \in NewlinesBefore(text, i) : j <= k) + 1

\* position range p is the line and column mapping of raw range r in text
MapsLinesAndColumns(text, r, p) ==
    /\ p.from.line = Cardinality(NewlinesBefore(text, r.from))
    /\ p.from.ch = r.from - LineStartBefore(text, r.from)
    /\ p.to.line = Cardinality(NewlinesBefore(text, r.to - 1))
    /\ p.to.ch = r.to - LineStartBefore(text, r.to - 1)
    /\ p.endsOnNewline = (text[r.to] = "\n")

\* every non-empty raw range of ranges is mapped to the position range of
\* positions with its number
AllMapped(text, ranges, positions) ==
    /\ Len(positions) = Len(ranges)
    /\ \A n \in 1..Len(ranges) :
         (0 <= ranges[n].from /\ ranges[n].from < ranges[n].to
          /\ ranges[n].to <= Len(text)) =>
            MapsLinesAndColumns(text, ranges[n], positions[n])

\* C23 Line/column mapping: for a text and a raw range [from, to) with
\* 0 <= from < to <= length(text), raw2Pos returns from.line = the number
\* of newlines strictly before from, from.ch = from minus the index after
\* the preceding newline, to.line = the number of newlines strictly before
\* to - 1, to.ch = to minus the start of that line, and endsOnNewline
\* exactly when text[to - 1] is a newline.
C23_LineColumnMapping ==
    (pc \in {"model", "getChunks", "chunked"}) =>
        /\ AllMapped(out.remote, out.additions, model.additions)
        /\ AllMapped(base.s, out.deletions, model.deletions)

\* a deletion that starts in the middle of the second line and ends with
\* that line's newline
C23_Witness ==
    /\ pc = "model"
    /\ Len(model.deletions) > 0
    /\ model.deletions[1].from = Pos(1, 1)
    /\ model.deletions[1].to = Pos(1, 2)
    /\ model.deletions[1].endsOnNewline
    /\ Len(model.additions) > 0
    /\ model.additions[1].from.line < model.additions[1].to.line

\* some chunk of cs holds edit line L
InSomeChunk(cs, L) == \E n \in 1..Len(cs) : cs[n].editFrom <= L /\ L < cs[n].editTo

\* the chunks of cs that end at or before edit line L
EndedBy(cs, L) == {n \in 1..Len(cs) : cs[n].editTo <= L}

\* the orig line across from edit line L, by the offset of the last chunk
\* that ends at or before L
Interpolated(cs, L) ==
    IF EndedBy(cs, L) = {} THEN L
    ELSE LET last == CHOOSE n \in EndedBy(cs, L) : \A k \in EndedBy(cs, L) : k <= n
         IN  L + (cs[last].origTo - cs[last].editTo)

\* C24 Matching line lookup: for a sorted chunk list without overlaps and
\* an edit line L, getMatchingOrigLine returns null exactly when some chunk
\* has editFrom <= L < editTo, and otherwise L + (origTo - editTo) of the
\* last chunk with editTo <= L, L itself when there is none.
C24_MatchingOrigLine ==
    pc = "matched" =>
        IF InSomeChunk(options.dv.chunks, cursor)
        THEN out.t = "null"
        ELSE out.t = "num" /\ out.n = Interpolated(options.dv.chunks, cursor)

\* a line after two chunks with different offsets, across from a line
\* with another number
C24_Witness ==
    /\ pc = "matched"
    /\ Len(options.dv.chunks) = 2
    /\ out.t = "num"
    /\ out.n # cursor
    /\ options.dv.chunks[1].origTo - options.dv.chunks[1].editTo
         # options.dv.chunks[2].origTo - options.dv.chunks[2].editTo
    /\ options.dv.chunks[2].editTo <= cursor

\* the lines at which the chunks of cs end in the edit view
EndLines(cs) == {cs[n].editTo : n \in 1..Len(cs)}

\* the tuples are in non-decreasing order of their edit line
AlignedInOrder(linesToAlign) ==
    \A n \in 1..(Len(linesToAlign) - 1) :
        linesToAlign[n][2].n <= linesToAlign[n + 1][2].n

\* one tuple for every line of ends
OnePerLine(linesToAlign, ends) ==
    /\ Len(linesToAlign) = Cardinality(ends)
    /\ {linesToAlign[n][2].n : n \in 1..Len(linesToAlign)} = ends

\* the chunks of cs end at ascending lines of the edit view
EndsAscending(cs) == \A n \in 1..(Len(cs) - 1) : cs[n].editTo < cs[n + 1].editTo

\* C25 Aligned lines are ordered: for two views whose chunk lists are
\* sorted ascending, findAlignedLines returns its tuples in non-decreasing
\* order of the edit line, the second component, with one tuple for every
\* distinct chunk end line of either view, however the chunk ends of the
\* two views interleave.
C25_AlignedLinesOrdered ==
    (/\ pc = "aligned" /\ options.other.t # "null"
     /\ EndsAscending(options.dv.chunks) /\ EndsAscending(options.other.chunks)) =>
        /\ AlignedInOrder(pout)
        /\ OnePerLine(pout, EndLines(options.dv.chunks) \cup EndLines(options.other.chunks))

\* the values of log that came from the model with index m, in order
RECURSIVE ValuesOf(_, _)
ValuesOf(log, m) ==
    IF log = <<>> THEN <<>>
    ELSE (IF Head(log).model = m THEN <<Head(log).value>> ELSE <<>>)
         \o ValuesOf(Tail(log), m)

\* what a DiffIter of model m yields from the state it on, up to its null
RECURSIVE DiffIterYields(_, _)
DiffIterYields(it, m) ==
    IF DiffIterNext(it, m).value.t = "null" THEN <<>>
    ELSE <<DiffIterNext(it, m).value>> \o DiffIterYields(DiffIterNext(it, m).it, m)

\* the ranges of the values that are additions, or that are deletions
RECURSIVE RangesOf(_, _)
RangesOf(values, isAddition) ==
    IF values = <<>> THEN <<>>
    ELSE (IF Head(values).isAddition = isAddition THEN <<Head(values).range>> ELSE <<>>)
         \o RangesOf(Tail(values), isAddition)

IsPrefixOf(s, t) == Len(s) <= Len(t) /\ s = SubSeq(t, 1, Len(s))

\* what was returned so far from every model is the start of what the
\* model's own DiffIter yields
SyncedInOrder ==
    \A m \in 1..Len(options) :
        IsPrefixOf(ValuesOf(pout, m - 1), DiffIterYields(DiffIter, options[m]))

\* every addition and deletion of every model was returned once
SyncedAll ==
    \A m \in 1..Len(options) :
        /\ ValuesOf(pout, m - 1) = DiffIterYields(DiffIter, options[m])
        /\ RangesOf(ValuesOf(pout, m - 1), TRUE) = options[m].additions
        /\ RangesOf(ValuesOf(pout, m - 1), FALSE) = options[m].deletions

\* next() returned null and done is set
SyncedDone == pc = "iter" /\ st.done /\ out.t = "null"

\* C26 Synchronized iteration is exhaustive and terminates: for a list of
\* string diff models, repeated calls of SyncedDiffIter.next() return every
\* addition and deletion of every model once, those of one model in the
\* order of the model's own DiffIter; next() returns null and sets done
\* only when all models are exhausted, after finitely many calls, and goes
\* on returning null.
C26_SyncedIteration ==
    /\ [](pc = "iter" => SyncedInOrder)
    /\ []((pc = "iter" /\ (st.done \/ out.t = "null")) => (SyncedDone /\ SyncedAll))
    /\ <>SyncedDone
    /\ [](SyncedDone => []SyncedDone)

\* C26, for lists of at least one model: the same statement, of the
\* iterators that have a model to take a value from
C26_SyncedIterationOfSome == Len(options) > 0 => C26_SyncedIteration

\* two models of two ranges each are exhausted, and the second value did
\* not come from the model of the first
C26_Witness ==
    /\ SyncedDone
    /\ Len(options) = 2
    /\ Len(pout) = 4
    /\ pout[1].model # pout[2].model

\* the values and edit offsets that next() hands to cmp: those of the
\* iterators of the running SyncedDiffIter
CmpArguments ==
    {<<st.values[m], st.iterators[m].editOffset>> : m \in 1..Len(st.values)}

\* the base line cmp gives a value
BaseLine(a, offset) == a.range.from.line + (IF a.isAddition THEN offset ELSE 0)

\* cmp answers the opposite when its arguments are exchanged, and a value
\* on an earlier base line is not put after one on a later base line
ConsistentOn(a, b, oa, ob) ==
    /\ cmp(a, b, oa, ob) = 0 - cmp(b, a, ob, oa)
    /\ BaseLine(a, oa) < BaseLine(b, ob) => cmp(a, b, oa, ob) < 0

\* C27 SyncedDiffIter.cmp is a consistent ordering: for non-null values a,
\* b and offsets oa, ob, cmp(a, b, oa, ob) = -cmp(b, a, ob, oa); it never
\* reports both a before b and b before a, and a value on an earlier base
\* line is never ordered after a value on a later base line because of its
\* column.
C27_CmpConsistent ==
    (pc = "iter" /\ ~st.done) =>
        \A x, y \in CmpArguments :
            (x[1].t # "null" /\ y[1].t # "null") =>
                ConsistentOn(x[1], y[1], x[2], y[2])

\* C28 Empty diff is the identity: for every base value B,
\* patchStringified(B, []) returns no additions, no deletions and a remote
\* equal to the rendering of B: B itself for a string, stringify(B) for an
\* array or object, the empty containers included.
C28_EmptyDiffIdentity ==
    (pc = "returned" /\ diff = <<>>) =>
        /\ ~IsThrow(out)
        /\ out.additions = <<>>
        /\ out.deletions = <<>>
        /\ out.remote = BaseText

\* chunk d comes after chunk c in both views and shares no line with it
ChunkAfter(c, d) == c.editTo <= d.editFrom /\ c.origTo <= d.origFrom

\* C29 Returned chunks are ordered and disjoint: for sorted addition and
\* deletion lists, consecutive chunks c, c' returned by getChunks satisfy
\* c.editTo <= c'.editFrom and c.origTo <= c'.origFrom, however additions
\* and deletions interleave and whatever the accumulated editOffset.
C29_ChunksOrderedDisjoint ==
    pc = "chunked" =>
        \A n \in 1..(Len(chunks) - 1) : ChunkAfter(chunks[n], chunks[n + 1])

\* position p is at or before position q, by line and then by column
PosAtOrBefore(p, q) == p.line < q.line \/ (p.line = q.line /\ p.ch <= q.ch)

\* C30 Position ranges are never inverted: for every text and raw range
\* with 0 <= from <= to <= length(text), the empty ranges and the ranges
\* that start right after a newline included, the position range that
\* raw2Pos returns has from at or before to in (line, ch) order.
C30_PositionsNotInverted ==
    pc = "positions" =>
        \A n \in 1..Len(pout) : PosAtOrBefore(pout[n].from, pout[n].to)

====
